---- MODULE Spec2Model ----
(***************************************************************************)
(* Mail triage engine: the weighted signal scorer (scoring.py), the        *)
(* score-to-category classifier (classifier.py) and the per-message        *)
(* pipeline of process_emails (main.py).                                   *)
(*                                                                         *)
(* Python str values are TLA+ strings; Optional[str] is a sequence of      *)
(* length 0 (None) or 1.  The signals dict is a function whose domain is   *)
(* the set of keys written so far.                                         *)
(***************************************************************************)
EXTENDS Integers, Sequences, FiniteSets, TLC

VARIABLES
    ACTION_THRESHOLD,   \* EmailClassifier.ACTION_THRESHOLD (class attribute)
    scorer,             \* the EmailScorer instance: user_name, trusted_domains
    pc,                 \* position in the per-message pipeline
    sender,             \* arguments of the score_email call in progress
    subject,
    preview,
    sender_score,       \* locals of score_email
    subject_score,
    content_score,
    total,              \* returned total
    signals,            \* returned signal breakdown
    score,              \* argument of the last classify call
    category,           \* result of the last classify call
    memo,               \* an earlier score_email call: configuration, arguments, result
    fs,                 \* the file system: mail root, version directories, database files
    store,              \* the contents of the Apple Mail and Outlook databases
    reader,             \* the reader object held by the caller, its connection
    outcome,            \* what the last reader operation returned or raised
    ipc,                \* position of the caller of the readers
    opened,             \* the modes of the connections opened so far
    msg                 \* the message dict process_emails is working on

scoringVars ==
    <<ACTION_THRESHOLD, scorer, pc, sender, subject, preview, sender_score,
      subject_score, content_score, total, signals, score, category, memo>>

ingestVars == <<fs, store, reader, outcome, ipc, opened, msg>>

vars == <<scoringVars, ingestVars>>

---------------------------------------------------------------------------
(* Python built-ins used by the scorer *)

None == <<>>

Some(v) == <<v>>

Max(a, b) == IF a >= b THEN a ELSE b

Min(a, b) == IF a <= b THEN a ELSE b

\* `p in s` for str, by scanning s
StrContains(s, p) ==
    \E i \in 1..(Len(s) - Len(p) + 1) : SubSeq(s, i, i + Len(p) - 1) = p

\* s.startswith(p)
StartsWith(s, p) == Len(s) >= Len(p) /\ SubSeq(s, 1, Len(p)) = p

LowerChar(c) ==
    CASE c = "A" -> "a" [] c = "B" -> "b" [] c = "C" -> "c" [] c = "D" -> "d"
      [] c = "E" -> "e" [] c = "F" -> "f" [] c = "G" -> "g" [] c = "H" -> "h"
      [] c = "I" -> "i" [] c = "J" -> "j" [] c = "K" -> "k" [] c = "L" -> "l"
      [] c = "M" -> "m" [] c = "N" -> "n" [] c = "O" -> "o" [] c = "P" -> "p"
      [] c = "Q" -> "q" [] c = "R" -> "r" [] c = "S" -> "s" [] c = "T" -> "t"
      [] c = "U" -> "u" [] c = "V" -> "v" [] c = "W" -> "w" [] c = "X" -> "x"
      [] c = "Y" -> "y" [] c = "Z" -> "z" [] OTHER -> c

\* s.lower(): every character lowered, the halves of s one after the other
RECURSIVE StrLower(_)
StrLower(s) ==
    IF Len(s) = 0 THEN ""
    ELSE IF Len(s) = 1 THEN LowerChar(s)
    ELSE LET half == Len(s) \div 2
         IN  StrLower(SubSeq(s, 1, half)) \o StrLower(SubSeq(s, half + 1, Len(s)))

IsSpace(c) == c \in {" ", "\t", "\n", "\r"}

\* s.strip()
RECURSIVE Strip(_)
Strip(s) ==
    IF Len(s) = 0 THEN s
    ELSE IF IsSpace(SubSeq(s, 1, 1)) THEN Strip(SubSeq(s, 2, Len(s)))
    ELSE IF IsSpace(SubSeq(s, Len(s), Len(s))) THEN Strip(SubSeq(s, 1, Len(s) - 1))
    ELSE s

\* index of the first occurrence of the one-character string c at or after
\* position i, or Len(s) + 1 when there is none
RECURSIVE Find(_, _, _)
Find(s, c, i) ==
    IF i > Len(s) THEN Len(s) + 1
    ELSE IF SubSeq(s, i, i) = c THEN i
    ELSE Find(s, c, i + 1)

\* s.split(c)[0]: the part before the first c
SplitFirst(s, c) == SubSeq(s, 1, Find(s, c, 1) - 1)

\* s.split(c)[1], for s containing c
SplitSecond(s, c) ==
    LET first == Find(s, c, 1)
        second == Find(s, c, first + 1)
    IN  SubSeq(s, first + 1, second - 1)

---------------------------------------------------------------------------
(* EmailScorer class attributes *)

TRUSTED_DOMAINS ==
    << "gmail.com", "outlook.com", "hotmail.com", "yahoo.com", "icloud.com",
       "me.com", "mac.com", "altra.cloud", "microsoft.com", "2bcloud.io" >>

BULK_PATTERNS ==
    << "noreply", "no-reply", "donotreply", "do-not-reply", "notifications",
       "automated", "newsletter", "marketing", "promo", "bounce" >>

ACTION_PHRASES ==
    << "can you", "could you", "please advise", "please review", "review",
       "please confirm", "need your", "waiting for", "urgent", "asap",
       "action required", "please respond", "feedback needed",
       "please let me know", "when can you", "do you have", "can we",
       "meeting request", "meeting", "schedule", "schedule a call", "call",
       "deadline", "follow up", "follow-up", "approve" >>

NEWSLETTER_PATTERNS ==
    << "newsletter", "digest", "weekly update", "daily update",
       "monthly update", "roundup", "recap", "your daily", "your weekly",
       "summary", "automated", "system notification" >>

JIRA_AUTOMATED_PATTERNS ==
    << "automation for jira commented",
       "following up on your recent support request",
       "haven't heard back from you", "will be closed automatically",
       "no further response is received",
       "check in and see if you still need assistance",
       "we're just following up", "wanted to check in",
       "if you've already found a solution" >>

INFORMATIONAL_PATTERNS ==
    << "license will expire", "licence will expire", "license expires",
       "licence expires", "license expiration", "licence expiration",
       "your access will expire", "your access expires", "expires soon",
       "will expire soon", "renewal plan", "renew your license",
       "renew your licence", "purchase a license", "purchase a licence",
       "before your access", "before your data is removed",
       "your data will be removed", "notification", "system notification",
       "automated notification", "your instance will be deleted",
       "complimentary access", "free access", "notification",
       "system notification", "automated notification" >>

UNSUBSCRIBE_PATTERNS ==
    << "unsubscribe", "opt out", "opt-out", "manage preferences",
       "manage subscription" >>

\* local list of score_email
license_expiration_keywords ==
    << "purchase a license", "purchase a licence", "before your access",
       "before your data", "expires soon", "will expire" >>

\* local list of _score_subject
action_required_patterns ==
    << "action required", "action needed", "requires action", "urgent action",
       "immediate action" >>

\* local list of _score_subject
meeting_patterns ==
    << "availability for", "availability", "meeting request",
       "schedule a call", "schedule a meeting", "can we schedule",
       "when are you available", "book a call", "book a meeting",
       "set up a call", "set up a meeting" >>

---------------------------------------------------------------------------
(* Inputs *)

MaxSubjectParts == 2

MaxPreviewParts == 2

ScoreMargin == 5

\* the parts numbered by idx, in increasing order, joined by single spaces
RECURSIVE JoinParts(_, _, _)
JoinParts(parts, idx, i) ==
    IF i > Len(parts) THEN ""
    ELSE IF i \notin idx THEN JoinParts(parts, idx, i + 1)
    ELSE LET rest == JoinParts(parts, idx, i + 1)
         IN  IF Len(rest) = 0 THEN parts[i] ELSE parts[i] \o " " \o rest

\* every text made of at most max of the parts
Texts(parts, max) ==
    { JoinParts(parts, idx, 1) :
        idx \in { s \in SUBSET (1..Len(parts)) : Cardinality(s) <= max } }

Senders ==
    { "jane@gmail.com", "newsletter@promo.example.com", "NoReply@Gmail.com ",
      "bob@example.com", "x@y@gmail.com", "" }

SubjectPrefixes == { "", "Re: " }

SubjectParts ==
    << "ACTION REQUIRED:", "your license expires soon", "notification",
       "access will expire", "Can you review this by Friday?",
       "Weekly Digest: Top Stories", "schedule a call", "team meeting" >>

Subjects ==
    { pre \o body : pre \in SubjectPrefixes,
                    body \in Texts(SubjectParts, MaxSubjectParts) }

PreviewParts ==
    << "Could you please review the attached proposal and confirm by Friday? Thanks, Jane",
       "To unsubscribe or opt-out, manage preferences here.",
       "Unsubscribe",
       "Automation for Jira commented on your request.",
       "Your license will expire in 7 days." >>

PreviewTexts == Texts(PreviewParts, MaxPreviewParts)

Previews == {None} \cup { Some(body) : body \in PreviewTexts }

UserNames == { None, Some("Jane") }

ExtraTrustedDomains == { None, Some(<< "example.com" >>) }

Adjustments == { -60, 60 }

ScoreDomain == (0 - ScoreMargin)..(100 + ScoreMargin)

---------------------------------------------------------------------------
(* str.lower() and `in`, tabulated once over the texts the inputs are made of *)

InputTexts ==
    Senders \cup Subjects \cup PreviewTexts \cup { u[1] : u \in UserNames \ {None} }

LowerTable == [s \in InputTexts |-> StrLower(s)]

\* no lowering at all
Lower_Identity(s) == s

\* s.lower()
Lower(s) == IF s \in InputTexts THEN LowerTable[s] ELSE StrLower(s)

PatternLists ==
    { BULK_PATTERNS, ACTION_PHRASES, NEWSLETTER_PATTERNS, JIRA_AUTOMATED_PATTERNS,
      INFORMATIONAL_PATTERNS, UNSUBSCRIBE_PATTERNS, license_expiration_keywords,
      action_required_patterns, meeting_patterns }

Needles ==
    { "@", "?", "meeting", "call" } \cup { LowerTable[u[1]] : u \in UserNames \ {None} }

Haystacks == InputTexts \cup { LowerTable[s] : s \in InputTexts }

ContainsTable == [s \in Haystacks |-> [p \in Needles |-> StrContains(s, p)]]

\* `p in s` for str
Contains(s, p) ==
    IF s \in Haystacks /\ p \in Needles THEN ContainsTable[s][p]
    ELSE StrContains(s, p)

\* the patterns of a list that occur in text
MatchingPatterns(patterns, text) ==
    { i \in 1..Len(patterns) : StrContains(text, patterns[i]) }

MatchTable ==
    [s \in Haystacks |-> [patterns \in PatternLists |-> MatchingPatterns(patterns, s)]]

\* the indices of the patterns of a list that occur in text
Matches(patterns, text) ==
    IF text \in Haystacks /\ patterns \in PatternLists THEN MatchTable[text][patterns]
    ELSE MatchingPatterns(patterns, text)

\* for pattern in patterns: if pattern in text: ...; break
AnyPatternIn(patterns, text) == Matches(patterns, text) # {}

\* value in list
InList(list, v) == \E i \in 1..Len(list) : list[i] = v

\* signals[name] = points
Put(d, name, points) ==
    [k \in (DOMAIN d) \cup {name} |-> IF k = name THEN points ELSE d[k]]

---------------------------------------------------------------------------
(* EmailScorer *)

\* EmailScorer.__init__: trusted_domains is None or a list of extra domains
EmailScorer(user_name, trusted_domains) ==
    [ user_name |-> user_name,
      trusted_domains |->
          IF trusted_domains # None /\ Len(trusted_domains[1]) > 0
          THEN TRUSTED_DOMAINS \o trusted_domains[1]
          ELSE TRUSTED_DOMAINS ]

\* signals = {}
EmptySignals == [k \in {} |-> 0]

\* a loop without its break: the body runs once per matching pattern
MatchCount_NoBreak(patterns, text) == Cardinality(Matches(patterns, text))

\* how often the body of `for pattern in patterns: if pattern in text: ...; break`
\* runs: the break leaves the loop at the first match
MatchCount(patterns, text) == IF AnyPatternIn(patterns, text) THEN 1 ELSE 0

\* how often the body of an `if` runs
Once(condition) == IF condition THEN 1 ELSE 0

\* n runs of `signals[name] = points; score += points` on st = [score, signals]
Record(st, name, points, n) ==
    IF n = 0 THEN st
    ELSE [ score |-> st.score + n * points,
           signals |-> Put(st.signals, name, points) ]

\* _score_sender, the local `domain`:
\* sender.split('@')[1].strip().lower() if '@' in sender, else None
ExtractDomain(sender_arg) ==
    IF Contains(sender_arg, "@")
    THEN Some(Lower(Strip(SplitSecond(sender_arg, "@"))))
    ELSE None

\* ExtractDomain, tabulated once over the senders
DomainTable == [s \in Senders |-> ExtractDomain(s)]

DomainOf(sender_arg) ==
    IF sender_arg \in Senders THEN DomainTable[sender_arg]
    ELSE ExtractDomain(sender_arg)

\* the direct-sender block without its guard
DirectSenderGuard_Always(is_bulk) == TRUE

\* the guard of the direct-sender block: `if not is_bulk`
DirectSenderGuard(is_bulk) == ~is_bulk

_score_sender(self, sender_arg, signals_arg) ==
    LET sender_lower == Lower(sender_arg)
        domain == DomainOf(sender_arg)
        n_bulk == MatchCount(BULK_PATTERNS, sender_lower)
        is_bulk == n_bulk > 0
        s0 == [score |-> 0, signals |-> signals_arg]
        s1 == Record(s0, "bulk_sender", -30, n_bulk)
        s2 == Record(s1, "direct_sender", 20, Once(DirectSenderGuard(is_bulk)))
        s3 == Record(s2, "trusted_domain", 10,
                     Once(/\ domain # None
                          /\ Len(domain[1]) > 0
                          /\ InList(self.trusted_domains, domain[1])))
    IN  s3

\* the general meeting/call keywords counted whatever was recorded before
MeetingMention_Unguarded(st, subject_lower) ==
    Record(st, "meeting_mention", 15,
           Once(Contains(subject_lower, "meeting") \/ Contains(subject_lower, "call")))

\* _score_subject, the general meeting/call keywords: counted only if neither
\* meeting_request nor action_required was recorded
MeetingMention(st, subject_lower) ==
    Record(st, "meeting_mention", 15,
           Once(/\ Contains(subject_lower, "meeting") \/ Contains(subject_lower, "call")
                /\ "meeting_request" \notin DOMAIN st.signals
                /\ "action_required" \notin DOMAIN st.signals))

_score_subject(subject_arg, signals_arg) ==
    LET subject_lower == Lower(subject_arg)
        s0 == [score |-> 0, signals |-> signals_arg]
        s1 == Record(s0, "action_required", 35,
                     MatchCount(action_required_patterns, subject_lower))
        s2 == Record(s1, "meeting_request", 30,
                     MatchCount(meeting_patterns, subject_lower))
        s3 == MeetingMention(s2, subject_lower)
        s4 == Record(s3, "contains_question", 15, Once(Contains(subject_arg, "?")))
        s5 == Record(s4, "is_reply", 10,
                     Once(StartsWith(subject_arg, "RE:") \/ StartsWith(subject_arg, "Re:")))
        s6 == Record(s5, "newsletter_subject", -20,
                     MatchCount(NEWSLETTER_PATTERNS, subject_lower))
    IN  s6

\* an informational loop that never corrects
InformationalPass_None(st, patterns, subject_lower) == st

\* one of the two informational loops of score_email over st = [score, signals]:
\* the first matching pattern applies the correction if action_required was
\* recorded, then breaks
InformationalPass(st, patterns, subject_lower) ==
    IF "action_required" \in DOMAIN st.signals
    THEN Record(st, "informational_action_required", -15,
                MatchCount(patterns, subject_lower))
    ELSE st

\* score_email, the two passes after _score_subject
InformationalCorrection(st, subject_arg) ==
    LET subject_lower == Lower(subject_arg)
        s1 == InformationalPass(st, INFORMATIONAL_PATTERNS, subject_lower)
        s2 == InformationalPass(s1, license_expiration_keywords, subject_lower)
    IN  s2

_score_content(self, preview_arg, signals_arg) ==
    LET preview_lower == Lower(preview_arg)
        s0 == [score |-> 0, signals |-> signals_arg]
        s1 == Record(s0, "jira_automated", -30,
                     MatchCount(JIRA_AUTOMATED_PATTERNS, preview_lower))
        s2 == Record(s1, "informational_notice", -15,
                     MatchCount(INFORMATIONAL_PATTERNS, preview_lower))
        s3 == Record(s2, "action_phrase", 20,
                     MatchCount(ACTION_PHRASES, preview_lower))
        s4 == Record(s3, "mentions_name", 15,
                     Once(/\ self.user_name # None
                          /\ Len(self.user_name[1]) > 0
                          /\ Contains(preview_lower, Lower(self.user_name[1]))))
        s5 == Record(s4, "has_unsubscribe", -40,
                     MatchCount(UNSUBSCRIBE_PATTERNS, preview_lower))
    IN  s5

\* the clamp without its lower bound
Clamp_NoFloor(t) == Min(100, t)

\* total = max(0, min(100, total))
Clamp(t) == Max(0, Min(100, t))

\* the dict of the previous call, reused
NewSignals_Stale == signals

\* the dict score_email starts from
NewSignals == EmptySignals

\* the locals of score_email after `name = r.score`, r = [score, signals] being
\* what a _score_* method returned and left in the shared dict
Bind(loc, name, r) == [loc EXCEPT ![name] = r.score, !.signals = r.signals]

\* sender_score = self._score_sender(sender, signals)
SenderSignals(self, sender_arg, loc) ==
    Bind(loc, "sender_score", _score_sender(self, sender_arg, loc.signals))

\* subject_score = self._score_subject(subject, signals), then the two
\* informational loops on subject_score
SubjectSignals(subject_arg, loc) ==
    Bind(loc, "subject_score",
         InformationalCorrection(_score_subject(subject_arg, loc.signals), subject_arg))

\* content_score = 0; if preview: content_score = self._score_content(preview, signals)
ContentSignals(self, preview_arg, loc) ==
    IF preview_arg # None /\ Len(preview_arg[1]) > 0
    THEN Bind(loc, "content_score", _score_content(self, preview_arg[1], loc.signals))
    ELSE loc

\* total = sender_score + subject_score + content_score, clamped; the locals
\* are kept next to the returned (total, signals)
Result(loc) ==
    [ sender_score |-> loc.sender_score,
      subject_score |-> loc.subject_score,
      content_score |-> loc.content_score,
      total |-> Clamp(loc.sender_score + loc.subject_score + loc.content_score),
      signals |-> loc.signals ]

\* EmailScorer.score_email; preview_arg is None or Some(text)
score_email(self, sender_arg, subject_arg, preview_arg) ==
    LET l0 == [ sender_score |-> 0, subject_score |-> 0, content_score |-> 0,
                signals |-> NewSignals ]
        l1 == SenderSignals(self, sender_arg, l0)
        l2 == SubjectSignals(subject_arg, l1)
        l3 == ContentSignals(self, preview_arg, l2)
    IN  Result(l3)

---------------------------------------------------------------------------
(* EmailClassifier *)

DEFAULT_ACTION_THRESHOLD == 30

FYI_THRESHOLD == 20

\* classify with a strict comparison against FYI_THRESHOLD
classify_strict(score_arg, action_threshold) ==
    IF score_arg >= action_threshold THEN "ACTION"
    ELSE IF score_arg > FYI_THRESHOLD THEN "FYI"
    ELSE "IGNORE"

\* classify with the FYI comparison turned around
classify_inverted(score_arg, action_threshold) ==
    IF score_arg >= action_threshold THEN "ACTION"
    ELSE IF score_arg <= FYI_THRESHOLD THEN "FYI"
    ELSE "IGNORE"

\* EmailClassifier.classify, reading the class attributes
classify(score_arg, action_threshold) ==
    IF score_arg >= action_threshold THEN "ACTION"
    ELSE IF score_arg >= FYI_THRESHOLD THEN "FYI"
    ELSE "IGNORE"

\* update_classifier_py: the value written back for ACTION_THRESHOLD
new_threshold(current_threshold, threshold_adjustment) ==
    Max(30, Min(90, current_threshold + threshold_adjustment))

---------------------------------------------------------------------------
(* The program *)

Init ==
    /\ ACTION_THRESHOLD = DEFAULT_ACTION_THRESHOLD
    /\ scorer = EmailScorer(None, None)
    /\ pc = "idle"
    /\ sender = ""
    /\ subject = ""
    /\ preview = None
    /\ sender_score = 0
    /\ subject_score = 0
    /\ content_score = 0
    /\ total = 0
    /\ signals = EmptySignals
    /\ score = 0
    /\ category = "unset"
    /\ memo = None
    /\ fs = None
    /\ store = None
    /\ reader = None
    /\ outcome = None
    /\ ipc = "unused"
    /\ opened = {}
    /\ msg = None

\* scorer = EmailScorer(user_name=..., trusted_domains=...)
NewScorer ==
    /\ pc = "idle"
    /\ \E user_name \in UserNames, trusted_domains \in ExtraTrustedDomains :
           scorer' = EmailScorer(user_name, trusted_domains)
    /\ UNCHANGED <<ACTION_THRESHOLD, pc, sender, subject, preview, sender_score,
                   subject_score, content_score, total, signals, score,
                   category, memo>>
    /\ UNCHANGED ingestVars

\* score, signals = scorer.score_email(sender, subject, preview) with arguments
\* drawn from the given sets
CallScoreEmail(sender_args, subject_args, preview_args) ==
    \E sender_arg \in sender_args, subject_arg \in subject_args,
       preview_arg \in preview_args :
        \E r \in { score_email(scorer, sender_arg, subject_arg, preview_arg) } :
            /\ sender' = sender_arg
            /\ subject' = subject_arg
            /\ preview' = preview_arg
            /\ sender_score' = r.sender_score
            /\ subject_score' = r.subject_score
            /\ content_score' = r.content_score
            /\ total' = r.total
            /\ signals' = r.signals

\* process_emails: score, signals = scorer.score_email(sender, subject, preview_text)
ScoreEmail ==
    /\ pc = "idle"
    /\ CallScoreEmail(Senders, Subjects, Previews)
    /\ pc' = "scored"
    /\ UNCHANGED <<ACTION_THRESHOLD, scorer, score, category, memo>>
    /\ UNCHANGED ingestVars

\* process_emails: category = EmailClassifier.classify(score)
ClassifyTotal ==
    /\ pc = "scored"
    /\ score' = total
    /\ category' = classify(total, ACTION_THRESHOLD)
    /\ pc' = "classified"
    /\ UNCHANGED <<ACTION_THRESHOLD, scorer, sender, subject, preview,
                   sender_score, subject_score, content_score, total, signals,
                   memo>>
    /\ UNCHANGED ingestVars

\* EmailClassifier.classify(score) called with any integer
Classify ==
    /\ pc = "idle"
    /\ \E score_arg \in ScoreDomain :
           /\ score' = score_arg
           /\ category' = classify(score_arg, ACTION_THRESHOLD)
    /\ pc' = "classified"
    /\ UNCHANGED <<ACTION_THRESHOLD, scorer, sender, subject, preview,
                   sender_score, subject_score, content_score, total, signals,
                   memo>>
    /\ UNCHANGED ingestVars

\* process_emails: the enriched message is appended and the loop's locals are
\* rebound for the next message
NextMessage ==
    /\ pc = "classified"
    /\ pc' = "idle"
    /\ sender' = ""
    /\ subject' = ""
    /\ preview' = None
    /\ sender_score' = 0
    /\ subject_score' = 0
    /\ content_score' = 0
    /\ total' = 0
    /\ signals' = EmptySignals
    /\ score' = 0
    /\ category' = "unset"
    /\ UNCHANGED <<ACTION_THRESHOLD, scorer, memo>>
    /\ UNCHANGED ingestVars

\* update_classifier_py(threshold_adjustment): classifier.py is rewritten
UpdateClassifierPy ==
    /\ pc = "idle"
    /\ \E threshold_adjustment \in Adjustments :
           ACTION_THRESHOLD' = new_threshold(ACTION_THRESHOLD, threshold_adjustment)
    /\ UNCHANGED <<scorer, pc, sender, subject, preview, sender_score,
                   subject_score, content_score, total, signals, score,
                   category, memo>>
    /\ UNCHANGED ingestVars

Next ==
    \/ NewScorer
    \/ ScoreEmail
    \/ ClassifyTotal
    \/ Classify
    \/ NextMessage
    \/ UpdateClassifierPy

Spec == Init /\ [][Next]_vars

---------------------------------------------------------------------------
(* Repeated score_email calls on scorer instances, the result of one earlier *)
(* call kept in memo for comparison                                          *)

MaxOtherCalls == 1

RepeatSenders == { "jane@gmail.com", "newsletter@promo.example.com" }

RepeatSubjects ==
    { "Weekly Digest: Top Stories", "Re: ACTION REQUIRED: your license expires soon" }

RepeatPreviews == { None, Some(PreviewParts[1]) }

\* the configuration and arguments of the call whose result the variables hold
CurrentCall ==
    [scorer |-> scorer, sender |-> sender, subject |-> subject, preview |-> preview]

\* a further score_email call; the dict returned by the previous call is still
\* referenced by its caller
ScoreEmailAgain ==
    /\ pc = "idle"
    /\ CallScoreEmail(RepeatSenders, RepeatSubjects, RepeatPreviews)
    /\ pc' = "scored"
    /\ UNCHANGED <<ACTION_THRESHOLD, scorer, score, category>>
    /\ memo' = IF memo # None /\ memo[1].call # CurrentCall'
                  /\ memo[1].others < MaxOtherCalls
               THEN Some([memo[1] EXCEPT !.others = @ + 1])
               ELSE memo
    /\ UNCHANGED ingestVars

\* the caller keeps the result of the call just made
Remember ==
    /\ pc = "scored"
    /\ memo = None
    /\ memo' = Some([call |-> CurrentCall, total |-> total, signals |-> signals,
                     others |-> 0])
    /\ UNCHANGED <<ACTION_THRESHOLD, scorer, pc, sender, subject, preview,
                   sender_score, subject_score, content_score, total, signals,
                   score, category>>
    /\ UNCHANGED ingestVars

\* score_email has returned
Return ==
    /\ pc = "scored"
    /\ pc' = "idle"
    /\ UNCHANGED <<ACTION_THRESHOLD, scorer, sender, subject, preview,
                   sender_score, subject_score, content_score, total, signals,
                   score, category, memo>>
    /\ UNCHANGED ingestVars

NextRepeat ==
    \/ NewScorer
    \/ ScoreEmailAgain
    \/ Remember
    \/ Return

SpecRepeat == Init /\ [][NextRepeat]_vars

---------------------------------------------------------------------------
(* The file system and Apple Mail's database discovery (mail_index.py) *)

\* characters of the names that get sorted, in code point order
CodePoints ==
    " ./0123456789:@ABCDEFGHIJKLMNOPQRSTUVWXYZ_abcdefghijklmnopqrstuvwxyz"

\* ord(c)
Ord(c) == CHOOSE i \in 1..Len(CodePoints) : SubSeq(CodePoints, i, i) = c

\* a < b for str: the first differing character decides, a proper prefix is less
RECURSIVE StrLess(_, _)
StrLess(a, b) ==
    IF Len(b) = 0 THEN FALSE
    ELSE IF Len(a) = 0 THEN TRUE
    ELSE IF SubSeq(a, 1, 1) # SubSeq(b, 1, 1)
         THEN Ord(SubSeq(a, 1, 1)) < Ord(SubSeq(b, 1, 1))
    ELSE StrLess(SubSeq(a, 2, Len(a)), SubSeq(b, 2, Len(b)))

\* the order sorted() puts two paths of the same directory in: PosixPath
\* compares the name strings
PathLess(a, b) == StrLess(a, b)

\* sorted(names, reverse=True)
RECURSIVE SortedReverse(_)
SortedReverse(names) ==
    IF names = {} THEN << >>
    ELSE << CHOOSE m \in names : \A n \in names \ {m} : PathLess(n, m) >>
         \o SortedReverse(names \ { CHOOSE m \in names : \A n \in names \ {m} : PathLess(n, m) })

\* Path.home() / "Library" / "Mail"
MailDir == "~/Library/Mail"

\* version_dir / "MailData" / "Envelope Index"
EnvelopePath(version_dir) == MailDir \o "/" \o version_dir \o "/MailData/Envelope Index"

\* the two places _find_outlook_db looks at
OutlookPrimary ==
    "~/Library/Group Containers/UBF8T346G9.Office/Outlook/Outlook 15 Profiles/Main Profile/Data/Outlook.sqlite"

OutlookAlternative ==
    "~/Library/Group Containers/UBF8T346G9.Office/Outlook/Outlook 15 Profiles/Main Profile/Outlook.sqlite"

\* entries of the mail root whose name starts with V
VersionNames == { "V2", "V9", "V10", "Vault" }

MaxVersionDirs == 3

\* a database file outside the discovered places, and a path that does not exist
ExplicitPaths == { "/data/Envelope Index", "/data/missing" }

\* file systems: mail_dir is "absent", "unreadable" or "ok"; version_dirs are
\* the V* entries of the mail root and with_index those holding
\* MailData/Envelope Index; files are the other database files that exist
FileSystems ==
    { [ mail_dir |-> d, version_dirs |-> vs, with_index |-> wi, files |-> fl ] :
        d \in { "absent", "unreadable", "ok" },
        vs \in { s \in SUBSET VersionNames : Cardinality(s) <= MaxVersionDirs },
        wi \in SUBSET VersionNames,
        fl \in { {"/data/Envelope Index"},
                 {"/data/Envelope Index", OutlookPrimary},
                 {"/data/Envelope Index", OutlookAlternative} } }

\* the file systems that can exist: an index lies in a version directory, and
\* a mail root that is absent has no entries
ConsistentFileSystems ==
    { f \in FileSystems :
        /\ f.with_index \subseteq f.version_dirs
        /\ (f.mail_dir = "absent") => (f.version_dirs = {}) }

\* os.path.exists(path) / Path.exists()
Exists(f, path) ==
    \/ path \in f.files
    \/ \E v \in f.with_index : f.mail_dir = "ok" /\ path = EnvelopePath(v)

\* the raise statements
FileNotFoundError(message) == [ type |-> "FileNotFoundError", message |-> message ]

PermissionError(message) == [ type |-> "PermissionError", message |-> message ]

\* the remediation text of _find_envelope_index
FullDiskAccessText ==
    "Cannot access " \o MailDir \o ". macOS requires Full Disk Access permission.\n"
    \o "To fix: System Settings > Privacy & Security > Full Disk Access\n"
    \o "Add Terminal (or your Python interpreter) to the list."

\* a call's result: it raised an exception or returned a value
Raised(exc) == [ raised |-> Some(exc), value |-> None ]

Returned(value) == [ raised |-> None, value |-> Some(value) ]

\* for version_dir in version_dirs: if envelope_path.exists(): return it
RECURSIVE FirstWithIndex(_, _, _)
FirstWithIndex(f, version_dirs, i) ==
    IF i > Len(version_dirs) THEN None
    ELSE IF version_dirs[i] \in f.with_index THEN Some(EnvelopePath(version_dirs[i]))
    ELSE FirstWithIndex(f, version_dirs, i + 1)

\* MailIndexReader._find_envelope_index: Returned(None), Returned(Some(path))
\* or Raised(PermissionError)
_find_envelope_index(f) ==
    IF f.mail_dir = "absent" THEN Returned(None)
    ELSE IF f.mail_dir = "unreadable" THEN Raised(PermissionError(FullDiskAccessText))
    ELSE Returned(FirstWithIndex(f, SortedReverse(f.version_dirs), 1))

---------------------------------------------------------------------------
(* SQLite databases: values, tables, and the statements the readers execute *)

\* column values: SQL NULL, an integer, a text
SqlNull == [ null |-> TRUE ]

SqlInt(n) == [ int |-> n ]

SqlText(s) == [ text |-> s ]

IsInt(v) == DOMAIN v = { "int" }

IsText(v) == DOMAIN v = { "text" }

\* a table: its declared columns and its rows, the rowid of a row being its index
Table(columns, rows) == [ columns |-> columns, rows |-> rows ]

\* a table without some of its columns
DropColumns(table, dropped) ==
    [ columns |-> table.columns \ dropped,
      rows |-> [ i \in 1..Len(table.rows) |->
                   [ c \in (DOMAIN table.rows[i]) \ dropped |-> table.rows[i][c] ] ] ]

\* a function restricted to some of its arguments
Restrict(f, keys) == [ k \in (DOMAIN f) \cap keys |-> f[k] ]

\* a function with one argument renamed
Rename(f, old, new) ==
    [ k \in ((DOMAIN f) \ {old}) \cup {new} |-> IF k = new THEN f[old] ELSE f[k] ]

\* sqlite3.OperationalError and the other sqlite3.Error subclasses
SqliteError(message) == [ type |-> "sqlite3.Error", message |-> message ]

MaxRows == 2

\* received times of the stored messages, and the clock
Now == 1000000

SecondsPerDay == 86400

\* Apple Mail's Envelope Index: sender, subject and mailbox of a message row
\* are rowids of the addresses, subjects and mailboxes tables
AppleMessages ==
    Table({ "sender", "subject", "date_received", "mailbox", "read", "flags" },
          << [ sender |-> SqlInt(1), subject |-> SqlInt(1), date_received |-> SqlInt(Now - 100),
               mailbox |-> SqlInt(1), read |-> SqlInt(0), flags |-> SqlInt(0) ],
             [ sender |-> SqlInt(2), subject |-> SqlInt(2), date_received |-> SqlInt(Now - 2 * SecondsPerDay),
               mailbox |-> SqlInt(2), read |-> SqlInt(1), flags |-> SqlInt(1) ] >>)

AppleLookups ==
    [ addresses |->
          Table({ "address" },
                << [ address |-> SqlText("jane@gmail.com") ],
                   [ address |-> SqlText("newsletter@promo.example.com") ] >>),
      subjects |->
          Table({ "subject" },
                << [ subject |-> SqlText("Can you review this by Friday?") ],
                   [ subject |-> SqlText("Weekly Digest: Top Stories") ] >>),
      mailboxes |->
          Table({ "url" },
                << [ url |-> SqlText("imap://jane@gmail.com/INBOX") ],
                   [ url |-> SqlText("ews://Exchange/Archive") ] >>) ]

\* the first n rows of a table
FirstRows(table, n) == [ table EXCEPT !.rows = SubSeq(table.rows, 1, Min(n, Len(table.rows))) ]

\* an Envelope Index whose message table is called name, lacks the dropped
\* columns and holds n rows, with the given lookup tables
AppleStore(name, dropped, lookups, n) ==
    [ openable |-> TRUE,
      tables |-> Rename(Restrict(AppleLookups, lookups)
                          @@ [ messages |-> DropColumns(FirstRows(AppleMessages, n), dropped) ],
                        "messages", name) ]

\* a file sqlite3.connect cannot open
Unopenable == [ openable |-> FALSE, tables |-> << >> ]

\* an Envelope Index without any of the candidate message tables
NoMessageTable == [ openable |-> TRUE, tables |-> AppleLookups ]

MessageTableNames == { "messages", "message", "mail" }

\* the Envelope Index shapes: the full schema with every number of rows and
\* every name of the message table, and full tables with columns or lookup
\* tables missing
AppleStores ==
    { AppleStore(name, {}, { "addresses", "subjects", "mailboxes" }, n) :
        name \in MessageTableNames, n \in 0..MaxRows }
    \cup { AppleStore("messages", dropped, { "addresses", "subjects", "mailboxes" }, MaxRows) :
              dropped \in { {"flags"}, {"read"} } }
    \cup { AppleStore("messages", {}, lookups, MaxRows) :
              lookups \in SUBSET { "addresses", "subjects", "mailboxes" } }
    \cup { NoMessageTable, Unopenable }

\* a cutoff one second after the one the readers compute
Cutoff_Late(since_days) == Now - since_days * SecondsPerDay + 1

\* cutoff = int(time.time()) - (since_days * 86400), the clock read in whole seconds
Cutoff(since_days) == Now - since_days * SecondsPerDay

\* str(n) for n >= 0
RECURSIVE IntText(_)
IntText(n) ==
    IF n < 10 THEN SubSeq("0123456789", n + 1, n + 1)
    ELSE IntText(n \div 10) \o SubSeq("0123456789", (n % 10) + 1, (n % 10) + 1)

\* a SELECT statement: select is a sequence of [ref, as]; joins a sequence of
\* LEFT JOIN table [as] ON on = as.to; where a sequence of conditions
\* [ref, op, param], each with the conditions it is OR-ed with; a column
\* reference is the sequence of its dotted names
Select(select, from, joins, where, order_by, limit) ==
    [ select |-> select, from |-> from, joins |-> joins, where |-> where,
      order_by |-> order_by, limit |-> limit ]

\* one condition of the WHERE clause, as the text names its column
Clause(ref, op, param) == [ ref |-> ref, op |-> op, param |-> param, or |-> << >> ]

\* the first condition alone
Either_First(a, b) == a

\* (a OR b)
Either(a, b) == [ a EXCEPT !.or = << b >> ]

\* LEFT JOIN table alias ON on = alias.to
Join(on, table, alias, to) == [ table |-> table, as |-> alias, on |-> on, to |-> to ]

\* the tables a statement names, by the name it uses for them
Scope(q) ==
    [ a \in { q.from } \cup { q.joins[j].as : j \in 1..Len(q.joins) } |->
        IF a = q.from THEN q.from
        ELSE q.joins[CHOOSE j \in 1..Len(q.joins) : q.joins[j].as = a].table ]

IsRowid(column) == column \in { "ROWID", "rowid" }

\* a column reference names a column of a table in scope
RefResolves(st, q, ref) ==
    /\ Len(ref) = 2
    /\ ref[1] \in DOMAIN Scope(q)
    /\ Scope(q)[ref[1]] \in DOMAIN st.tables
    /\ IsRowid(ref[2]) \/ ref[2] \in st.tables[Scope(q)[ref[1]]].columns

\* every column reference of a statement
QueryRefs(q) ==
    { q.select[k].ref : k \in 1..Len(q.select) }
    \cup { q.joins[j].on : j \in 1..Len(q.joins) }
    \cup { << q.joins[j].as, q.joins[j].to >> : j \in 1..Len(q.joins) }
    \cup { q.where[k].ref : k \in 1..Len(q.where) }
    \cup UNION { { q.where[k].or[n].ref : n \in 1..Len(q.where[k].or) } : k \in 1..Len(q.where) }
    \cup { q.order_by }

\* sqlite prepares the statement: every table and column it names exists
QueryValid(st, q) ==
    /\ q.from \in DOMAIN st.tables
    /\ \A j \in 1..Len(q.joins) : q.joins[j].table \in DOMAIN st.tables
    /\ \A ref \in QueryRefs(q) : RefResolves(st, q, ref)

\* the value of a column of a row of a table; NULL when the LEFT JOIN found no row
ColumnValue(table, row, column) ==
    IF row = None THEN SqlNull
    ELSE IF IsRowid(column) THEN SqlInt(row[1])
    ELSE table.rows[row[1]][column]

\* the rows of a table whose column has the value v
RowsWhere(table, column, v) ==
    { r \in 1..Len(table.rows) : v # SqlNull /\ ColumnValue(table, Some(r), column) = v }

\* the row a LEFT JOIN pairs with a key value, if any
Joined(table, column, v) ==
    IF RowsWhere(table, column, v) = {} THEN None
    ELSE Some(CHOOSE r \in RowsWhere(table, column, v) :
                 \A o \in RowsWhere(table, column, v) : r <= o)

\* the value of a column reference for message row i
RECURSIVE ValueOf(_, _, _, _)
ValueOf(st, q, i, ref) ==
    IF ref[1] = q.from THEN ColumnValue(st.tables[q.from], Some(i), ref[2])
    ELSE ColumnValue(st.tables[Scope(q)[ref[1]]],
                     Joined(st.tables[Scope(q)[ref[1]]],
                            q.joins[CHOOSE j \in 1..Len(q.joins) : q.joins[j].as = ref[1]].to,
                            ValueOf(st, q, i,
                                    q.joins[CHOOSE j \in 1..Len(q.joins) : q.joins[j].as = ref[1]].on)),
                     ref[2])

\* value LIKE '%param%': case-insensitive, an integer compared as its text
Like(v, param) ==
    \/ IsText(v) /\ StrContains(StrLower(v.text), StrLower(param))
    \/ IsInt(v) /\ StrContains(IntText(v.int), StrLower(param))

\* one condition on a value; a comparison with NULL is not true
Holds(v, op, param) ==
    CASE op = ">=" -> IsInt(v) /\ v.int >= param
      [] op = "=" -> IsInt(v) /\ v.int = param
      [] op = "LIKE" -> Like(v, param)

\* the message rows that satisfy every condition of the WHERE clause
Matching(st, q) ==
    { i \in 1..Len(st.tables[q.from].rows) :
        \A k \in 1..Len(q.where) :
            \/ Holds(ValueOf(st, q, i, q.where[k].ref), q.where[k].op, q.where[k].param)
            \/ \E n \in 1..Len(q.where[k].or) :
                   Holds(ValueOf(st, q, i, q.where[k].or[n].ref),
                         q.where[k].or[n].op, q.where[k].or[n].param) }

\* the sort key of ORDER BY: NULL sorts below every number
SortKey(v) == IF IsInt(v) THEN v.int ELSE -1

\* ORDER BY order_by DESC: the rows by decreasing value, equal values by rowid
RECURSIVE OrderDesc(_, _, _)
OrderDesc(st, q, rows) ==
    IF rows = {} THEN << >>
    ELSE << CHOOSE m \in rows :
              \A n \in rows : \/ SortKey(ValueOf(st, q, n, q.order_by)) < SortKey(ValueOf(st, q, m, q.order_by))
                              \/ /\ SortKey(ValueOf(st, q, n, q.order_by)) = SortKey(ValueOf(st, q, m, q.order_by))
                                 /\ m <= n >>
         \o OrderDesc(st, q, rows \ { CHOOSE m \in rows :
              \A n \in rows : \/ SortKey(ValueOf(st, q, n, q.order_by)) < SortKey(ValueOf(st, q, m, q.order_by))
                              \/ /\ SortKey(ValueOf(st, q, n, q.order_by)) = SortKey(ValueOf(st, q, m, q.order_by))
                                 /\ m <= n })

\* LIMIT n
Limit(rows, n) == SubSeq(rows, 1, Min(Len(rows), n))

\* dict(row) for message row i
RowDict(st, q, i) ==
    [ a \in { q.select[k].as : k \in 1..Len(q.select) } |->
        ValueOf(st, q, i, q.select[CHOOSE k \in 1..Len(q.select) : q.select[k].as = a].ref) ]

\* the dicts of the given rows
RowDicts(st, q, rows) == [ n \in 1..Len(rows) |-> RowDict(st, q, rows[n]) ]

\* cursor.execute(query, params); cursor.fetchall()
Execute(st, q) ==
    IF QueryValid(st, q)
    THEN Returned(RowDicts(st, q, Limit(OrderDesc(st, q, Matching(st, q)), q.limit)))
    ELSE Raised(SqliteError("no such table or column"))

---------------------------------------------------------------------------
(* MailIndexReader (mail_index.py) *)

\* bool(x) of an Optional[str]
Truthy(opt) == opt # None /\ Len(opt[1]) > 0

\* the given items if the condition holds, none otherwise
When(condition, items) == IF condition THEN items ELSE << >>

\* the first candidate for which `SELECT 1 FROM candidate LIMIT 1` succeeds
RECURSIVE FindTable(_, _, _)
FindTable(st, candidates, i) ==
    IF i > Len(candidates) THEN None
    ELSE IF candidates[i] \in DOMAIN st.tables THEN Some(candidates[i])
    ELSE FindTable(st, candidates, i + 1)

\* MailIndexReader._get_available_columns: PRAGMA table_info of the first
\* candidate table that has columns
RECURSIVE _get_available_columns(_, _, _)
_get_available_columns(st, candidates, i) ==
    IF i > Len(candidates) THEN {}
    ELSE IF candidates[i] \in DOMAIN st.tables /\ st.tables[candidates[i]].columns # {}
         THEN st.tables[candidates[i]].columns
    ELSE _get_available_columns(st, candidates, i + 1)

Candidates == << "messages", "message", "mail" >>

OptionalColumns == << "remote_id", "sender_address", "date_sent", "flags", "account" >>

\* the arguments of query_messages
Filters(limit, since_days, unread_only, mailbox, account) ==
    [ limit |-> limit, since_days |-> since_days, unread_only |-> unread_only,
      mailbox |-> mailbox, account |-> account ]

\* table_name.column as alias
Column(table_name, column, alias) == [ ref |-> << table_name, column >>, as |-> alias ]

\* for col, alias in optional_columns.items(): if col in available_cols: ...
RECURSIVE OptionalSelect(_, _, _)
OptionalSelect(table_name, available_cols, i) ==
    IF i > Len(OptionalColumns) THEN << >>
    ELSE When(OptionalColumns[i] \in available_cols,
              << Column(table_name, OptionalColumns[i], OptionalColumns[i]) >>)
         \o OptionalSelect(table_name, available_cols, i + 1)

\* select_columns
SelectColumns(st, table_name) ==
    << Column(table_name, "ROWID", "message_id"),
       IF "subjects" \in DOMAIN st.tables
       THEN Column("subj", "subject", "subject") ELSE Column(table_name, "subject", "subject"),
       IF "addresses" \in DOMAIN st.tables
       THEN Column("addr", "address", "sender") ELSE Column(table_name, "sender", "sender"),
       Column(table_name, "date_received", "date_received"),
       IF "mailboxes" \in DOMAIN st.tables
       THEN Column("mb", "url", "mailbox") ELSE Column(table_name, "mailbox", "mailbox"),
       Column(table_name, "read", "read") >>
    \o OptionalSelect(table_name, _get_available_columns(st, Candidates, 1), 1)

\* where_clauses, before qualification
WhereClauses(st, table_name, args) ==
    When(args.since_days # None,
         << Clause(<< "date_received" >>, ">=", Cutoff(args.since_days[1])) >>)
    \o When(args.unread_only, << Clause(<< "read" >>, "=", 0) >>)
    \o When(Truthy(args.mailbox) /\ args.account = None,
            << Clause(<< "mailbox" >>, "LIKE", args.mailbox[1]) >>)
    \o When("mailboxes" \in DOMAIN st.tables /\ Truthy(args.account),
            << Clause(<< "mb", "url" >>, "LIKE", args.account[1]) >>)
    \o When("mailboxes" \in DOMAIN st.tables /\ Truthy(args.mailbox),
            << Clause(<< "mb", "url" >>, "LIKE", args.mailbox[1]) >>)
    \o When("mailboxes" \notin DOMAIN st.tables /\ Truthy(args.account),
            << Clause(<< table_name, "mailbox" >>, "LIKE", args.account[1]) >>)

\* the three re.sub calls on a clause: the words date_received and read, and
\* the word mailbox where no dot follows it, get table_name put in front
RECURSIVE QualifyRef(_, _, _)
QualifyRef(table_name, ref, i) ==
    IF i > Len(ref) THEN << >>
    ELSE (IF \/ ref[i] \in { "date_received", "read" }
             \/ ref[i] = "mailbox" /\ i = Len(ref)
          THEN << table_name, ref[i] >>
          ELSE << ref[i] >>)
         \o QualifyRef(table_name, ref, i + 1)

\* qualified_where_clauses
Qualified(table_name, clauses) ==
    [ k \in 1..Len(clauses) |->
        Clause(QualifyRef(table_name, clauses[k].ref, 1), clauses[k].op, clauses[k].param) ]

\* the three joins whatever tables exist
Joins_Unconditional(st, table_name) ==
    << Join(<< table_name, "sender" >>, "addresses", "addr", "rowid"),
       Join(<< table_name, "subject" >>, "subjects", "subj", "rowid"),
       Join(<< table_name, "mailbox" >>, "mailboxes", "mb", "ROWID") >>

\* joins
Joins(st, table_name) ==
    When("addresses" \in DOMAIN st.tables, << Join(<< table_name, "sender" >>, "addresses", "addr", "rowid") >>)
    \o When("subjects" \in DOMAIN st.tables, << Join(<< table_name, "subject" >>, "subjects", "subj", "rowid") >>)
    \o When("mailboxes" \in DOMAIN st.tables, << Join(<< table_name, "mailbox" >>, "mailboxes", "mb", "ROWID") >>)

\* the final query of MailIndexReader.query_messages
MailQuery(st, table_name, args) ==
    Select(SelectColumns(st, table_name), table_name, Joins(st, table_name),
           Qualified(table_name, WhereClauses(st, table_name, args)),
           << table_name, "date_received" >>, args.limit)

\* msg = dict(row); msg['emlx_path'] = None, for every row
WithEmlxPath(rows) ==
    [ n \in 1..Len(rows) |-> rows[n] @@ [ emlx_path |-> SqlNull ] ]

\* what a call printed, next to what it returned or raised
Printing(r, lines) == [ raised |-> r.raised, value |-> r.value, printed |-> lines ]

\* the final query without the except clause
MailRows_NoExcept(r) ==
    IF r.raised # None THEN Printing(r, << >>)
    ELSE Printing(Returned(WithEmlxPath(r.value[1])), << >>)

\* the try/except around the final query: a failed statement is a warning and
\* an empty list
MailRows(r) ==
    IF r.raised # None
    THEN Printing(Returned(<< >>), << "Warning: Query failed: " \o r.raised[1].message >>)
    ELSE Printing(Returned(WithEmlxPath(r.value[1])), << >>)

\* MailIndexReader.query_messages after self.connect(), found being the
\* message table found among the candidates
MailMessages(st, found, args) ==
    IF found = None
    THEN Printing(Raised([ type |-> "RuntimeError",
                           message |-> "Could not find messages table in Envelope Index" ]), << >>)
    ELSE MailRows(Execute(st, MailQuery(st, found[1], args)))

---------------------------------------------------------------------------
(* OutlookIndexReader (outlook_index.py) *)

\* Outlook.sqlite: a message row holds its subject, sender and preview, and
\* the Record_RecordID of its folder; a folder that of its account
OutlookMail ==
    Table({ "Record_RecordID", "Message_NormalizedSubject", "Message_SenderAddressList",
            "Message_TimeReceived", "Message_TimeSent", "Message_ReadFlag", "Message_Preview",
            "Record_FolderID", "PathToDataFile" },
          << [ Record_RecordID |-> SqlInt(1),
               Message_NormalizedSubject |-> SqlText("Can you review this by Friday?"),
               Message_SenderAddressList |-> SqlText("Jane Doe <jane@gmail.com>"),
               Message_TimeReceived |-> SqlInt(Now - 100),
               Message_TimeSent |-> SqlInt(Now - 100),
               Message_ReadFlag |-> SqlInt(0),
               Message_Preview |-> SqlText("please review the attached plan"),
               Record_FolderID |-> SqlInt(1),
               PathToDataFile |-> SqlText("Messages/1.olk15Message") ],
             [ Record_RecordID |-> SqlInt(2),
               Message_NormalizedSubject |-> SqlText("Weekly Digest: Top Stories"),
               Message_SenderAddressList |-> SqlText(" newsletter@promo.example.com "),
               Message_TimeReceived |-> SqlInt(Now - 2 * SecondsPerDay),
               Message_TimeSent |-> SqlNull,
               Message_ReadFlag |-> SqlInt(1),
               Message_Preview |-> SqlNull,
               Record_FolderID |-> SqlInt(2),
               PathToDataFile |-> SqlNull ] >>)

OutlookLookups ==
    [ Folders |->
          Table({ "Record_RecordID", "Folder_Name", "Record_AccountUID" },
                << [ Record_RecordID |-> SqlInt(1), Folder_Name |-> SqlText("Inbox"),
                     Record_AccountUID |-> SqlInt(1) ] >>),
      AccountsMail |->
          Table({ "Record_RecordID", "Account_EmailAddress" },
                << [ Record_RecordID |-> SqlInt(1),
                     Account_EmailAddress |-> SqlText("jane@gmail.com") ] >>) ]

\* other values of Message_SenderAddressList for the two messages
SenderLists ==
    { << SqlNull, SqlText("") >>,
      << SqlText("<>x<a@b.io>"), SqlText("A <a@b.io> <c@d.io>") >>,
      << SqlText("Jane < jane@gmail.com >"), SqlText("a@b.io>x<") >>,
      << SqlText("a <b <c@d.io>"), SqlText("  ") >>,
      << SqlText("x@y.io"), SqlText("Bob <bob@gmail.com>") >> }

\* an Outlook database with the senders of its messages replaced
WithSenders(st, senders) ==
    [ st EXCEPT !.tables["Mail"].rows =
        [ i \in 1..Len(st.tables["Mail"].rows) |->
            [ st.tables["Mail"].rows[i] EXCEPT !.Message_SenderAddressList = senders[i] ] ] ]

\* an Outlook database whose Mail table lacks the dropped columns and holds n
\* rows, with the given other tables
OutlookStore(dropped, lookups, n) ==
    [ openable |-> TRUE,
      tables |-> Restrict(OutlookLookups, lookups)
                   @@ [ Mail |-> DropColumns(FirstRows(OutlookMail, n), dropped) ] ]

OutlookStores ==
    { OutlookStore({}, { "Folders", "AccountsMail" }, n) : n \in 0..MaxRows }
    \cup { OutlookStore({"Message_Preview"}, { "Folders", "AccountsMail" }, MaxRows) }
    \cup { OutlookStore({}, lookups, MaxRows) : lookups \in SUBSET { "Folders", "AccountsMail" } }
    \cup { WithSenders(OutlookStore({}, { "Folders", "AccountsMail" }, MaxRows), senders) :
              senders \in SenderLists }
    \cup { Unopenable }

\* select_columns
OutlookSelect ==
    << Column("Mail", "Record_RecordID", "message_id"),
       Column("Mail", "Message_NormalizedSubject", "subject"),
       Column("Mail", "Message_SenderAddressList", "sender"),
       Column("Mail", "Message_TimeReceived", "date_received"),
       Column("Mail", "Message_TimeSent", "date_sent"),
       Column("Mail", "Message_ReadFlag", "read"),
       Column("Mail", "Message_Preview", "preview"),
       Column("Mail", "Record_FolderID", "folder_id"),
       Column("Mail", "PathToDataFile", "message_path") >>

\* where_clauses
OutlookWhere(args) ==
    When(args.since_days # None,
         << Clause(<< "Mail", "Message_TimeReceived" >>, ">=", Cutoff(args.since_days[1])) >>)
    \o When(args.unread_only, << Clause(<< "Mail", "Message_ReadFlag" >>, "=", 0) >>)
    \o When(Truthy(args.mailbox),
            << Clause(<< "Folders", "Folder_Name" >>, "LIKE", args.mailbox[1]) >>)
    \o When(Truthy(args.account) /\ StrContains(args.account[1], "@"),
            << Either(Clause(<< "AccountsMail", "Account_EmailAddress" >>, "LIKE", args.account[1]),
                      Clause(<< "Mail", "Message_SenderAddressList" >>, "LIKE",
                             "@" \o SplitSecond(args.account[1], "@"))) >>)
    \o When(Truthy(args.account) /\ ~StrContains(args.account[1], "@"),
            << Clause(<< "AccountsMail", "Account_EmailAddress" >>, "LIKE", args.account[1]) >>)

\* joins
OutlookJoins(args) ==
    When(Truthy(args.mailbox) \/ Truthy(args.account),
         << Join(<< "Mail", "Record_FolderID" >>, "Folders", "Folders", "Record_RecordID") >>)
    \o When(Truthy(args.account),
            << Join(<< "Folders", "Record_AccountUID" >>, "AccountsMail", "AccountsMail",
                    "Record_RecordID") >>)

\* the query of OutlookIndexReader.query_messages
OutlookQuery(args) ==
    Select(OutlookSelect, "Mail", OutlookJoins(args), OutlookWhere(args),
           << "Mail", "Message_TimeReceived" >>, args.limit)

\* sender = msg.get('sender', '') or ''
TextOrEmpty(v) == IF IsText(v) THEN v.text ELSE ""

\* the bracketed part looked for at the first "<" only
AngleAddress_AtFirst(address_list) ==
    IF /\ Find(address_list, "<", 1) <= Len(address_list)
       /\ Find(address_list, ">", Find(address_list, "<", 1) + 1) <= Len(address_list)
       /\ Find(address_list, ">", Find(address_list, "<", 1) + 1) > Find(address_list, "<", 1) + 1
    THEN SubSeq(address_list, Find(address_list, "<", 1) + 1, Find(address_list, ">", Find(address_list, "<", 1) + 1) - 1)
    ELSE address_list

\* r'<([^>]+)>' matches at the "<" at position k: a character other than ">"
\* follows it, and a ">" comes later
AngleAt(s, k) ==
    /\ k + 1 <= Len(s)
    /\ SubSeq(s, k + 1, k + 1) # ">"
    /\ Find(s, ">", k + 2) <= Len(s)

\* where re.search finds its match, at or after position i; Len(s) + 1 when
\* there is none
RECURSIVE AngleStart(_, _)
AngleStart(s, i) ==
    IF Find(s, "<", i) > Len(s) THEN Len(s) + 1
    ELSE IF AngleAt(s, Find(s, "<", i)) THEN Find(s, "<", i)
    ELSE AngleStart(s, Find(s, "<", i) + 1)

\* if '<' in sender and '>' in sender: re.search(r'<([^>]+)>', sender).group(1)
\* when there is a match; the sender otherwise
AngleAddress(address_list) ==
    IF AngleStart(address_list, 1) > Len(address_list) THEN address_list
    ELSE SubSeq(address_list, AngleStart(address_list, 1) + 1,
                Find(address_list, ">", AngleStart(address_list, 1) + 2) - 1)

\* SELECT Folder_Name FROM Folders WHERE Folders.Record_RecordID = ?: the
\* mailbox key of a message with a folder_id; a failed lookup gives None and a
\* lookup that finds no folder leaves the key unset
FolderName(st, folder_id) ==
    IF ~("Folders" \in DOMAIN st.tables) THEN [ mailbox |-> SqlNull ]
    ELSE IF Joined(st.tables["Folders"], "Record_RecordID", folder_id) = None THEN << >>
    ELSE [ mailbox |->
             ColumnValue(st.tables["Folders"],
                         Joined(st.tables["Folders"], "Record_RecordID", folder_id),
                         "Folder_Name") ]

\* bool(v) of a column value
SqlTruthy(v) == (IsInt(v) /\ v.int # 0) \/ (IsText(v) /\ Len(v.text) > 0)

\* the message dict OutlookIndexReader.query_messages makes of a row; the
\* stored times are numbers or NULL, which float() keeps
OutlookMessage(st, row) ==
    (IF SqlTruthy(row.folder_id) THEN FolderName(st, row.folder_id) ELSE [ mailbox |-> SqlNull ])
    @@ [ row EXCEPT !.sender = SqlText(Strip(AngleAddress(TextOrEmpty(row.sender)))) ]

\* the try/except around the query
OutlookRows(st, r) ==
    IF r.raised # None
    THEN Printing(Returned(<< >>), << "Warning: Query failed: " \o r.raised[1].message >>)
    ELSE Printing(Returned([ n \in 1..Len(r.value[1]) |-> OutlookMessage(st, r.value[1][n]) ]), << >>)

\* OutlookIndexReader.query_messages after self.connect()
OutlookMessages(st, args) == OutlookRows(st, Execute(st, OutlookQuery(args)))

---------------------------------------------------------------------------
(* The readers: construction, connections, account and mailbox lists *)
(* (mail_index.py, outlook_index.py, email_reader.py)                 *)

\* a reader object: AppleMailReader around a MailIndexReader, or OutlookReader
\* around an OutlookIndexReader
Reader(kind, db_path) == [ kind |-> kind, db_path |-> db_path, connection |-> None ]

\* f"{db_path}" of an Optional[str]
PathText(db_path) == IF db_path = None THEN "None" ELSE db_path[1]

\* MailIndexReader.__init__ once db_path is decided
MailIndexReaderAt(f, db_path) ==
    IF ~Truthy(db_path) \/ ~Exists(f, db_path[1])
    THEN Raised(FileNotFoundError("Envelope Index not found at: " \o PathText(db_path)))
    ELSE Returned(Reader("apple-mail", db_path[1]))

\* MailIndexReader.__init__ after self._find_envelope_index()
AfterDiscovery(f, found) ==
    IF found.raised # None THEN found ELSE MailIndexReaderAt(f, found.value[1])

\* MailIndexReader(db_path)
MailIndexReader(f, db_path) ==
    IF db_path = None THEN AfterDiscovery(f, _find_envelope_index(f))
    ELSE MailIndexReaderAt(f, db_path)

\* OutlookIndexReader._find_outlook_db
_find_outlook_db(f) ==
    IF Exists(f, OutlookPrimary) THEN Some(OutlookPrimary)
    ELSE IF Exists(f, OutlookAlternative) THEN Some(OutlookAlternative)
    ELSE None

\* OutlookIndexReader.__init__ once db_path is decided
OutlookIndexReaderAt(f, db_path) ==
    IF ~Truthy(db_path) \/ ~Exists(f, db_path[1])
    THEN Raised(FileNotFoundError("Outlook database not found at: " \o PathText(db_path)))
    ELSE Returned(Reader("outlook", db_path[1]))

\* OutlookIndexReader(db_path)
OutlookIndexReader(f, db_path) ==
    IF db_path = None THEN OutlookIndexReaderAt(f, _find_outlook_db(f))
    ELSE OutlookIndexReaderAt(f, db_path)

\* the mode of the URI sqlite3.connect is given
ConnectMode_ReadWrite == "rwc"

ConnectMode == "ro"

\* a connection sqlite3.connect returned
Connection(self) == [ kind |-> self.kind, db_path |-> self.db_path, mode |-> ConnectMode ]

\* connect() returns: the connection exists already, or sqlite3.connect opens the file
CanConnect(self, st) == self.connection # None \/ st[self.db_path].openable

\* the reader after connect()
connect(self) ==
    IF self.connection # None THEN self
    ELSE [ self EXCEPT !.connection = Some(Connection(self)) ]

\* connect() without its first two lines: a connection is opened every time
Opening_Always(self) == { Connection(self) }

\* the connections connect() opens
Opening(self) == IF self.connection # None THEN {} ELSE { Connection(self) }

\* the reader after close()
close(self) == [ self EXCEPT !.connection = None ]

\* what sqlite3.connect raises
CannotOpen == Raised(SqliteError("unable to open database file"))

\* with reader: reader.get_accounts(), the result dropped
Probed(made, st) ==
    IF made.raised # None THEN made
    ELSE IF ~st[made.value[1].db_path].openable THEN CannotOpen
    ELSE made

\* the message of the error create_reader raises when no backend works
NoBackendText ==
    "Could not find Apple Mail or Outlook database.\n"
    \o "Make sure Apple Mail or Outlook is installed and has been run at least once."

\* a result of create_reader: the backends it tried to construct, in order,
\* and the connections its probes opened and closed
Attempted(r, attempts, connections) ==
    [ raised |-> r.raised, value |-> r.value, attempts |-> attempts,
      connections |-> connections ]

\* the inner try of auto-detection: the Outlook reader probed
AutoOutlook(probed) ==
    IF probed.raised # None
    THEN Attempted(Raised(FileNotFoundError(NoBackendText)), << "apple-mail", "outlook" >>, {})
    ELSE Attempted(probed, << "apple-mail", "outlook" >>, { Connection(probed.value[1]) })

\* except FileNotFoundError: the clause without Exception
Fallback_FileNotFoundOnly(exc) == exc.type = "FileNotFoundError"

\* except (FileNotFoundError, Exception): the exceptions the clause catches
Fallback(exc) == TRUE

\* the outer try of auto-detection: the Apple Mail reader probed
AutoApple(f, st, db_path, probed) ==
    IF probed.raised = None
    THEN Attempted(probed, << "apple-mail" >>, { Connection(probed.value[1]) })
    ELSE IF Fallback(probed.raised[1])
    THEN AutoOutlook(Probed(OutlookIndexReader(f, db_path), st))
    ELSE Attempted(probed, << "apple-mail" >>, {})

\* create_reader(client, db_path)
create_reader(f, st, client, db_path) ==
    IF client = Some("apple-mail")
    THEN Attempted(MailIndexReader(f, db_path), << "apple-mail" >>, {})
    ELSE IF client = Some("outlook")
    THEN Attempted(OutlookIndexReader(f, db_path), << "outlook" >>, {})
    ELSE IF client = None
    THEN AutoApple(f, st, db_path, Probed(MailIndexReader(f, db_path), st))
    ELSE Attempted(Raised([ type |-> "ValueError",
                            message |-> "Unknown email client: " \o client[1]
                                        \o ". Use 'apple-mail' or 'outlook'" ]),
                   << >>, {})

\* sorted(names)
RECURSIVE Sorted(_)
Sorted(names) ==
    IF names = {} THEN << >>
    ELSE << CHOOSE m \in names : \A n \in names \ {m} : StrLess(m, n) >>
         \o Sorted(names \ { CHOOSE m \in names : \A n \in names \ {m} : StrLess(m, n) })

\* the first part of path.split('/') that is not empty and does not start
\* with a dot, from position i on; None when there is no such part
RECURSIVE FirstPart(_, _)
FirstPart(path, i) ==
    IF i > Len(path) THEN None
    ELSE IF Find(path, "/", i) = i \/ SubSeq(path, i, i) = "."
    THEN FirstPart(path, Find(path, "/", i) + 1)
    ELSE Some(SubSeq(path, i, Find(path, "/", i) - 1))

\* path.replace('\\', '/')
Slashes(path) ==
    [ i \in 1..Len(path) |-> IF SubSeq(path, i, i) = "\\" THEN "/" ELSE SubSeq(path, i, i) ]

\* the characters of a string put together again
RECURSIVE Chars(_, _)
Chars(cs, i) == IF i > Len(cs) THEN "" ELSE cs[i] \o Chars(cs, i + 1)

\* the account of a mailbox path: the first part of
\* path.replace('\\', '/').split('/') that is not empty and has no leading dot
PathAccount(path) == FirstPart(Chars(Slashes(path), 1), 1)

\* the values a column holds, over the rows of a table
ColumnValues(table, column) ==
    { table.rows[i][column] : i \in 1..Len(table.rows) }

\* 1: the mailbox column holds paths: each non-empty str value gives its
\* first part, as it is
FromMailboxColumn(st) ==
    { PathAccount(v.text)[1] :
        v \in { m \in ColumnValues(st.tables["messages"], "mailbox") :
                  IsText(m) /\ SqlTruthy(m) /\ PathAccount(m.text) # None } }

\* has_int_mailboxes: a mailbox value that is an int and is not skipped as falsy
has_int_mailboxes(st) ==
    \E m \in ColumnValues(st.tables["messages"], "mailbox") : IsInt(m) /\ SqlTruthy(m)

\* str(row[0]).strip()
StrStripped(v) == IF IsInt(v) THEN IntText(v.int) ELSE Strip(v.text)

\* SELECT DISTINCT account FROM <table> WHERE account IS NOT NULL AND account != '',
\* each truthy value as a stripped str
FromAccountColumn(table) ==
    IF "account" \notin table.columns THEN {}
    ELSE { StrStripped(v) : v \in { a \in ColumnValues(table, "account") : SqlTruthy(a) } }

\* the first parts, stripped, of the non-empty str values among paths
PathAccounts(paths) ==
    { Strip(PathAccount(v.text)[1]) :
        v \in { m \in paths : IsText(m) /\ SqlTruthy(m) /\ PathAccount(m.text) # None } }

\* 3: the mailbox_path column, when the message table has one
FromMailboxPath(st) ==
    IF "mailbox_path" \notin st.tables["messages"].columns THEN {}
    ELSE PathAccounts(ColumnValues(st.tables["messages"], "mailbox_path"))

\* the urls of the mailboxes the message rows refer to:
\* SELECT DISTINCT mail.url FROM messages m JOIN mailboxes mail ON m.mailbox = mail.ROWID
MessageMailboxUrls(st) ==
    { st.tables["mailboxes"].rows[r].url :
        r \in { b \in 1..Len(st.tables["mailboxes"].rows) :
                  SqlInt(b) \in ColumnValues(st.tables["messages"], "mailbox") } }

\* 4: the mailbox column holds rowids of the mailboxes table; without the
\* table nothing is found, and without its url column the join fails and the
\* fallback finds no url column either
FromMailboxesTable(st) ==
    IF \/ ~has_int_mailboxes(st)
       \/ "mailboxes" \notin DOMAIN st.tables
       \/ "url" \notin st.tables["mailboxes"].columns
    THEN {}
    ELSE PathAccounts(MessageMailboxUrls(st))

\* 5: the account column of every other table
FromOtherTables(st) ==
    UNION { FromAccountColumn(st.tables[table_name]) :
              table_name \in (DOMAIN st.tables) \ { "messages" } }

\* every strategy adds to the accounts, whatever the earlier ones found
IfNone_Always(accounts, found) == accounts \cup found

\* if not accounts: the next strategy is used
IfNone(accounts, found) == IF accounts = {} THEN found ELSE accounts

\* MailIndexReader.get_accounts after self.connect(): the first statement
\* fails without a messages table or its mailbox column, and except
\* sqlite3.Error returns []
MailAccounts(st) ==
    IF \/ "messages" \notin DOMAIN st.tables
       \/ "mailbox" \notin st.tables["messages"].columns
    THEN << >>
    ELSE Sorted(IfNone(IfNone(IfNone(IfNone(FromMailboxColumn(st),
                                            FromAccountColumn(st.tables["messages"])),
                                     FromMailboxPath(st)),
                              FromMailboxesTable(st)),
                       FromOtherTables(st)))

\* OutlookIndexReader.get_accounts after self.connect()
OutlookAccounts(st) ==
    IF \/ "AccountsMail" \notin DOMAIN st.tables
       \/ "Account_EmailAddress" \notin st.tables["AccountsMail"].columns
    THEN << >>
    ELSE Sorted({ st.tables["AccountsMail"].rows[r].Account_EmailAddress.text :
                    r \in { a \in 1..Len(st.tables["AccountsMail"].rows) :
                              /\ IsText(st.tables["AccountsMail"].rows[a].Account_EmailAddress)
                              /\ Len(st.tables["AccountsMail"].rows[a].Account_EmailAddress.text) > 0 } })

\* the values of a column in increasing order, each once
RECURSIVE Ascending(_)
Ascending(numbers) ==
    IF numbers = {} THEN << >>
    ELSE << SqlInt(CHOOSE m \in numbers : \A n \in numbers : m <= n) >>
         \o Ascending(numbers \ { CHOOSE m \in numbers : \A n \in numbers : m <= n })

\* MailIndexReader.get_mailboxes after self.connect():
\* SELECT DISTINCT mailbox FROM messages WHERE mailbox IS NOT NULL ORDER BY mailbox
MailMailboxes(st) ==
    IF "messages" \notin DOMAIN st.tables \/ "mailbox" \notin st.tables["messages"].columns
    THEN << >>
    ELSE Ascending({ st.tables["messages"].rows[i].mailbox.int :
                       i \in { j \in 1..Len(st.tables["messages"].rows) :
                                 IsInt(st.tables["messages"].rows[j].mailbox) } })

\* a call on a reader: the reader afterwards and what the call returned,
\* raised and printed
Call(self, r) ==
    [ reader |-> self, raised |-> r.raised, value |-> r.value, printed |-> r.printed ]

\* reader.query_messages(...)
query_messages(self, st, args) ==
    IF ~CanConnect(self, st) THEN Call(self, Printing(CannotOpen, << >>))
    ELSE IF self.kind = "apple-mail"
    THEN Call(connect(self),
              MailMessages(st[self.db_path], FindTable(st[self.db_path], Candidates, 1), args))
    ELSE Call(connect(self), OutlookMessages(st[self.db_path], args))

\* reader.get_accounts()
get_accounts(self, st) ==
    IF ~CanConnect(self, st) THEN Call(self, Printing(CannotOpen, << >>))
    ELSE IF self.kind = "apple-mail"
    THEN Call(connect(self), Printing(Returned(MailAccounts(st[self.db_path])), << >>))
    ELSE Call(connect(self), Printing(Returned(OutlookAccounts(st[self.db_path])), << >>))

---------------------------------------------------------------------------
(* The callers of the readers (main.py, ui.py) and the ingestion program *)

\* --client / the client select: auto-detection is None
Clients == { None, Some("apple-mail"), Some("outlook"), Some("thunderbird") }

\* --db-path
DbPaths == { None } \cup { Some(path) : path \in ExplicitPaths }

\* the default of limit
DefaultLimit == 20

\* the filters of a query: none, one, and pairs of them
FilterSets ==
    { Filters(1, None, FALSE, None, None),
      Filters(DefaultLimit, None, FALSE, None, None),
      Filters(DefaultLimit, Some(1), FALSE, None, None),
      Filters(DefaultLimit, Some(2), FALSE, None, None),
      Filters(DefaultLimit, None, TRUE, None, None),
      Filters(DefaultLimit, None, FALSE, Some("INBOX"), None),
      Filters(DefaultLimit, None, FALSE, None, Some("Exchange")),
      Filters(DefaultLimit, None, FALSE, None, Some("jane@gmail.com")),
      Filters(DefaultLimit, None, FALSE, None, Some("info@promo.example.com")),
      Filters(DefaultLimit, None, FALSE, None, Some("gmail")),
      Filters(DefaultLimit, Some(1), TRUE, None, None),
      Filters(DefaultLimit, None, TRUE, Some("Archive"), None),
      Filters(DefaultLimit, None, FALSE, Some("INBOX"), Some("Exchange")),
      Filters(DefaultLimit, None, FALSE, Some("INBOX"), Some("gmail")) }

\* the filters the retries of a caller look at
RetryFilterSets ==
    { args \in FilterSets : args.limit = DefaultLimit /\ args.account = None }

NoFilters == Filters(DefaultLimit, None, FALSE, None, None)

\* a file system with one Apple Mail version directory and an Outlook profile
DefaultFileSystem ==
    [ mail_dir |-> "ok", version_dirs |-> { "V10" }, with_index |-> { "V10" },
      files |-> { OutlookPrimary } ]

\* the paths that exist in a file system
Paths(f) ==
    { path \in ExplicitPaths \cup { OutlookPrimary, OutlookAlternative }
                 \cup { EnvelopePath(v) : v \in VersionNames } : Exists(f, path) }

\* the database files: every Envelope Index holds a, every Outlook.sqlite o
Databases(f, a, o) ==
    [ path \in Paths(f) |-> IF path \in { OutlookPrimary, OutlookAlternative } THEN o ELSE a ]

DefaultAppleStore == AppleStore("messages", {}, { "addresses", "subjects", "mailboxes" }, MaxRows)

DefaultOutlookStore == OutlookStore({}, { "Folders", "AccountsMail" }, MaxRows)

\* the state before any reader exists
NoReader ==
    /\ reader = None /\ outcome = None /\ ipc = "start" /\ opened = {} /\ msg = None

\* the scorer part of the state, not used by the ingestion program
ScorerIdle ==
    /\ ACTION_THRESHOLD = DEFAULT_ACTION_THRESHOLD
    /\ scorer = EmailScorer(None, None) /\ pc = "idle"
    /\ sender = "" /\ subject = "" /\ preview = None
    /\ sender_score = 0 /\ subject_score = 0 /\ content_score = 0 /\ total = 0
    /\ signals = EmptySignals /\ score = 0 /\ category = "unset" /\ memo = None

\* one machine, databases of every shape
InitReader ==
    /\ ScorerIdle
    /\ fs = DefaultFileSystem
    /\ \E a \in AppleStores, o \in OutlookStores :
           /\ a = DefaultAppleStore \/ o = DefaultOutlookStore
           /\ store = Databases(DefaultFileSystem, a, o)
    /\ NoReader

\* every file system, the databases present or not openable
InitCreate ==
    /\ ScorerIdle
    /\ fs \in ConsistentFileSystems
    /\ \E a \in { DefaultAppleStore, Unopenable }, o \in { DefaultOutlookStore, Unopenable } :
           store = Databases(fs, a, o)
    /\ NoReader

\* main.py: reader = create_reader(client=client_name, db_path=args.db_path),
\* once in a run
CreateReader ==
    /\ ipc = "start"
    /\ \E client \in Clients, db_path \in DbPaths :
         \E made \in { create_reader(fs, store, client, db_path) } :
           /\ outcome' = [ raised |-> made.raised, value |-> made.value,
                           attempts |-> made.attempts, client |-> client, db_path |-> db_path ]
           /\ reader' = IF made.raised = None THEN made.value ELSE None
           /\ opened' = made.connections
    /\ ipc' = "create_reader"
    /\ UNCHANGED << fs, store, msg >>
    /\ UNCHANGED scoringVars

\* a call on the reader ends: the caller has its result; args are the filters
\* the call was given, if it takes any
Finish(call, name, args) ==
    /\ reader' = Some(call.reader)
    /\ outcome' = [ raised |-> call.raised, value |-> call.value, printed |-> call.printed,
                    args |-> args ]
    /\ ipc' = name
    /\ UNCHANGED << fs, store, msg >>
    /\ UNCHANGED scoringVars

\* the run is main.py's, or a program's that uses the reader it created
OnReader == reader # None /\ ipc # "load_emails"

\* reader.__enter__() / connect()
Connect ==
    /\ OnReader
    /\ opened' = (IF CanConnect(reader[1], store) THEN Opening(reader[1]) ELSE {})
    /\ Finish(IF CanConnect(reader[1], store)
              THEN Call(connect(reader[1]), Printing(Returned(None), << >>))
              ELSE Call(reader[1], Printing(CannotOpen, << >>)),
              "connect", None)

\* reader.__exit__() / close()
Close ==
    /\ OnReader
    /\ opened' = {}
    /\ Finish(Call(close(reader[1]), Printing(Returned(None), << >>)), "close", None)

\* reader.query_messages(...), on its own
QueryMessages ==
    /\ OnReader
    /\ opened' = (IF CanConnect(reader[1], store) THEN Opening(reader[1]) ELSE {})
    /\ \E args \in FilterSets :
         \E call \in { query_messages(reader[1], store, args) } : Finish(call, "query_messages", Some(args))

\* reader.get_accounts(), on its own
GetAccounts ==
    /\ OnReader
    /\ opened' = (IF CanConnect(reader[1], store) THEN Opening(reader[1]) ELSE {})
    /\ \E call \in { get_accounts(reader[1], store) } : Finish(call, "get_accounts", None)

\* MailIndexReader.get_mailboxes()
GetMailboxes ==
    /\ OnReader
    /\ reader[1].kind = "apple-mail"
    /\ opened' = (IF CanConnect(reader[1], store) THEN Opening(reader[1]) ELSE {})
    /\ Finish(IF CanConnect(reader[1], store)
              THEN Call(connect(reader[1]),
                        Printing(Returned(MailMailboxes(store[reader[1].db_path])), << >>))
              ELSE Call(reader[1], Printing(CannotOpen, << >>)),
              "get_mailboxes", None)

\* a call with the reader closed afterwards: the end of a with block
Closed(call) == [ call EXCEPT !.reader = close(call.reader) ]

\* a later call's result, after what the earlier one printed
Then(earlier, call) == [ call EXCEPT !.printed = earlier.printed \o call.printed ]

\* no exception and no messages
Empty(call) == call.raised = None /\ call.value[1] = << >>

\* with reader: messages = reader.query_messages(...)
WithQuery(self, st, args) ==
    IF ~CanConnect(self, st) THEN Call(self, Printing(CannotOpen, << >>))
    ELSE Closed(query_messages(connect(self), st, args))

\* load_emails: if not messages: if mailbox: query again without the mailbox
WithoutMailbox(first, st, args) ==
    IF Empty(first) /\ Truthy(args.mailbox)
    THEN Then(first, query_messages(first.reader, st, [ args EXCEPT !.mailbox = None ]))
    ELSE first

\* load_emails: if not messages and unread_only: query again with all emails
WithoutUnread(second, st, args) ==
    IF Empty(second) /\ args.unread_only
    THEN Then(second, query_messages(second.reader, st,
                                     [ args EXCEPT !.mailbox = None, !.unread_only = FALSE ]))
    ELSE second

\* the queries of EmailAccountingApp.load_emails on the reader it created
LoadQueries(self, st, args) ==
    WithoutUnread(WithoutMailbox(WithQuery(self, st, args), st, args), st, args)

\* ui.py load_emails up to the messages it goes on to score: a reader is
\* created for the selected client and queried; when create_reader raises,
\* self.reader stays what it was
LoadEmails ==
    /\ ipc \in { "start", "load_emails" }
    /\ \E client \in Clients \ { Some("thunderbird") }, args \in RetryFilterSets :
      \E made \in { create_reader(fs, store, client, None) } :
        IF made.raised # None
        THEN /\ outcome' = [ raised |-> made.raised, value |-> None, printed |-> << >>,
                             args |-> Some(args) ]
             /\ opened' = {}
             /\ ipc' = "load_emails"
             /\ UNCHANGED << fs, store, msg, reader >>
             /\ UNCHANGED scoringVars
        ELSE /\ opened' = made.connections
                            \cup (IF CanConnect(made.value[1], store)
                                  THEN { Connection(made.value[1]) } ELSE {})
             /\ \E call \in { LoadQueries(made.value[1], store, args) } :
                    Finish(call, "load_emails", Some(args))

\* main.py: if not messages and args.open is not None and since_days: query
\* again without the date filter
WithoutDate(first, st, args, open) ==
    IF Empty(first) /\ open /\ args.since_days # None /\ args.since_days[1] # 0
    THEN Then(first, query_messages(first.reader, st, [ args EXCEPT !.since_days = None ]))
    ELSE first

\* main.py: with reader: the query and its retry
MainQueries(self, st, args, open) ==
    IF ~CanConnect(self, st) THEN Call(self, Printing(CannotOpen, << >>))
    ELSE Closed(WithoutDate(query_messages(connect(self), st, args), st, args, open))

\* main.py: the database query of a run on the reader main created
MainQuery ==
    /\ OnReader
    /\ opened' = (IF CanConnect(reader[1], store) THEN Opening(reader[1]) ELSE {})
    /\ \E args \in RetryFilterSets, open \in BOOLEAN :
         \E call \in { MainQueries(reader[1], store, args, open) } : Finish(call, "main", Some(args))

NextReader ==
    \/ CreateReader
    \/ Connect
    \/ Close
    \/ QueryMessages
    \/ GetAccounts
    \/ GetMailboxes
    \/ LoadEmails
    \/ MainQuery

SpecReader == InitReader /\ [][NextReader]_vars

NextCreate == CreateReader

SpecCreate == InitCreate /\ [][NextCreate]_vars

---------------------------------------------------------------------------
(* EmailPreview (preview.py) and the preview step of process_emails (main.py) *)

SIGNATURE_MARKERS == << "--", "-- ", "___", "Sent from", "Get Outlook for" >>

MAX_PREVIEW_LENGTH == 300

\* s + s
Twice(s) == s \o s

\* s * n, by halving n
RECURSIVE Repeat(_, _)
Repeat(s, n) ==
    IF n <= 0 THEN ""
    ELSE IF n % 2 = 0 THEN Twice(Repeat(s, n \div 2))
    ELSE s \o Twice(Repeat(s, n \div 2))

\* the least of a non-empty set of numbers
Least(numbers) == CHOOSE m \in numbers : \A k \in numbers : m <= k

\* s.find(c, i - 1) + 1 for a one-character c, Len(s) + 1 when there is none
Index(s, c, i) ==
    Least({ k \in i..Len(s) : SubSeq(s, k, k) = c } \cup { Len(s) + 1 })

\* body.split('\n'), from position i on; j is where the next '\n' is
RECURSIVE SplitLines(_, _)
SplitAt(body, i, j) ==
    IF j > Len(body) THEN << SubSeq(body, i, Len(body)) >>
    ELSE << SubSeq(body, i, j - 1) >> \o SplitLines(body, j + 1)

SplitLines(body, i) == SplitAt(body, i, Index(body, "\n", i))

\* any(marker in line for marker in SIGNATURE_MARKERS)
HasSignature(line) ==
    \E k \in 1..Len(SIGNATURE_MARKERS) : StrContains(line, SIGNATURE_MARKERS[k])

\* the positions of text where a starts, whatever the case of the letters
Starts(text, a) ==
    { i \in 1..(Len(text) - Len(a) + 1) : StrLower(SubSeq(text, i, i + Len(a) - 1)) = a }

\* re.search of the pattern `a.*b` in text, re.IGNORECASE
SearchGap(text, a, b) ==
    \E i \in Starts(text, a) : \E j \in Starts(text, b) : i + Len(a) <= j

\* re.search(pattern, line, re.IGNORECASE) for some pattern of QUOTE_MARKERS
IsQuote(line) ==
    \/ SearchGap(line, "on ", " wrote:")
    \/ SearchGap(line, "from:", "sent:")
    \/ StrContains(line, ">")
    \/ StrContains(line, "________________________________")

\* sum(len(l) for l in cleaned_lines)
RECURSIVE TotalLength(_)
TotalLength(lines) ==
    IF lines = << >> THEN 0 ELSE Len(Head(lines)) + TotalLength(Tail(lines))

\* the loop of _clean_body from line i on, and its body for one stripped line
RECURSIVE CleanLines(_, _, _)
CleanLine(lines, i, cleaned_lines, line) ==
    IF HasSignature(line) \/ IsQuote(line) THEN cleaned_lines
    ELSE IF Len(line) = 0 THEN CleanLines(lines, i + 1, cleaned_lines)
    ELSE IF TotalLength(Append(cleaned_lines, line)) >= MAX_PREVIEW_LENGTH
    THEN Append(cleaned_lines, line)
    ELSE CleanLines(lines, i + 1, Append(cleaned_lines, line))

CleanLines(lines, i, cleaned_lines) ==
    IF i > Len(lines) THEN cleaned_lines
    ELSE CleanLine(lines, i, cleaned_lines, Strip(lines[i]))

\* ' '.join(lines)
RECURSIVE JoinSpaces(_)
JoinSpaces(lines) ==
    IF lines = << >> THEN ""
    ELSE IF Len(lines) = 1 THEN lines[1]
    ELSE lines[1] \o " " \o JoinSpaces(Tail(lines))

\* if len(preview) > MAX_PREVIEW_LENGTH: preview = preview[:MAX_PREVIEW_LENGTH] + '...'
Truncate(text) ==
    IF Len(text) > MAX_PREVIEW_LENGTH
    THEN SubSeq(text, 1, MAX_PREVIEW_LENGTH) \o "..."
    ELSE text

\* EmailPreview._clean_body
_clean_body(body) == Truncate(JoinSpaces(CleanLines(SplitLines(body, 1), 1, << >>)))

\* position k of text lies in a match of <[^>]+>: a "<" at or before k, at
\* least one character that is not ">" after it, and the first ">" after that
\* at or behind k
InTag(text, k) ==
    \E j \in 1..k :
        /\ SubSeq(text, j, j) = "<"
        /\ Index(text, ">", j + 1) >= Max(j + 2, k)
        /\ Index(text, ">", j + 1) <= Len(text)

\* re.sub(r'<[^>]+>', '', text) for the positions lo..hi of text, by halves
RECURSIVE RemoveTags(_, _, _)
RemoveTags(text, lo, hi) ==
    IF lo > hi THEN ""
    ELSE IF lo = hi THEN (IF InTag(text, lo) THEN "" ELSE SubSeq(text, lo, lo))
    ELSE RemoveTags(text, lo, (lo + hi) \div 2) \o RemoveTags(text, (lo + hi) \div 2 + 1, hi)

\* re.sub(r'\s+', ' ', text) for the positions lo..hi of text, by halves: a
\* run of whitespace leaves one space where it starts
RECURSIVE CollapseSpaces(_, _, _)
CollapseSpaces(text, lo, hi) ==
    IF lo > hi THEN ""
    ELSE IF lo = hi
    THEN (IF ~IsSpace(SubSeq(text, lo, lo)) THEN SubSeq(text, lo, lo)
          ELSE IF lo > 1 /\ IsSpace(SubSeq(text, lo - 1, lo - 1)) THEN ""
          ELSE " ")
    ELSE CollapseSpaces(text, lo, (lo + hi) \div 2)
         \o CollapseSpaces(text, (lo + hi) \div 2 + 1, hi)

\* the whole of text without its tags, and with its whitespace collapsed
WithoutTags(text) == RemoveTags(text, 1, Len(text))

Collapsed(text) == CollapseSpaces(text, 1, Len(text))

\* EmailPreview._strip_html, for content without entities, script and style elements
_strip_html(html_content) == Strip(Collapsed(WithoutTags(html_content)))

\* a part of a message: its content type, whether get_content() decodes it, its text
Part(content_type, decodable, text) ==
    [ content_type |-> content_type, decodable |-> decodable, text |-> text ]

\* part.get_content() that replaces what it cannot decode instead of raising
Decoded_Lenient(part) == Some(part.text)

\* part.get_content(): None stands for the exception it raises
Decoded(part) == IF part.decodable THEN Some(part.text) ELSE None

\* EmailPreview._extract_body: the parts in walk() order from part i on, body
\* being the text found so far; a message that is not multipart is its one part
RECURSIVE _extract_body(_, _, _)
_extract_body(parts, i, body) ==
    IF i > Len(parts) THEN body
    ELSE IF parts[i].content_type = "text/plain" /\ Decoded(parts[i]) # None
    THEN Decoded(parts[i])
    ELSE IF parts[i].content_type = "text/html" /\ body = None /\ Decoded(parts[i]) # None
    THEN _extract_body(parts, i + 1, Some(_strip_html(Decoded(parts[i])[1])))
    ELSE _extract_body(parts, i + 1, body)

\* a body file: it is missing, cannot be read, or holds a message of some parts
EmlxFile(state, parts) == [ state |-> state, parts |-> parts ]

\* if not body_text: return None; else the cleaned body
PreviewOf(body_text) ==
    IF body_text = None \/ Len(body_text[1]) = 0 THEN None
    ELSE Some(_clean_body(body_text[1]))

\* EmailPreview.extract_from_emlx(emlx_path), file being what is at the path
extract_from_emlx(emlx_path, file) ==
    IF ~Truthy(emlx_path) \/ file.state = "missing" THEN None
    ELSE IF file.state = "unreadable" THEN None
    ELSE PreviewOf(_extract_body(file.parts, 1, None))

\* the texts message bodies are made of
BodyTexts == { PreviewParts[k] : k \in 1..Len(PreviewParts) }

\* message bodies: the text, alone or followed by a signature or a quoted reply
PlainBodies ==
    { text : text \in BodyTexts }
    \cup { "  " \o text \o "  \n\n-- \nJane Doe\nSent from my iPhone" : text \in BodyTexts }
    \cup { text \o "\nOn Monday, Bob wrote:\n> Unsubscribe" : text \in BodyTexts }
    \cup { "", "-- \nUnsubscribe" }

\* the body files of the messages
EmlxFiles ==
    { EmlxFile("missing", << >>), EmlxFile("unreadable", << >>),
      EmlxFile("ok", << >>),
      EmlxFile("ok", << Part("image/png", TRUE, "Unsubscribe") >>),
      EmlxFile("ok", << Part("text/plain", FALSE, "Unsubscribe") >>),
      EmlxFile("ok", << Part("text/html", FALSE, "<p>Unsubscribe</p>") >>) }
    \cup { EmlxFile("ok", << Part("text/plain", TRUE, body) >>) :
             body \in PlainBodies \cup { Repeat("a", MAX_PREVIEW_LENGTH + 1) } }
    \cup { EmlxFile("ok", << Part("text/html", TRUE, "<p>" \o text \o "</p>\n  <br/>") >>) :
             text \in BodyTexts }
    \cup { EmlxFile("ok", << Part("text/html", TRUE, "<b>Unsubscribe</b>"),
                             Part("text/plain", TRUE, text) >>) : text \in BodyTexts }

\* a message dict as a reader or the AppleScript search returns it, with the
\* file its path names; emlx_path is msg.get('emlx_path') or msg.get('message_path')
Message(sender_value, subject_value, content, preview_value, emlx_path, file) ==
    [ sender |-> sender_value, subject |-> subject_value, content |-> content,
      preview |-> preview_value, emlx_path |-> emlx_path, file |-> file ]

Messages ==
    { Message(sender_value, Some("Can you review this by Friday?"), None, None,
              Some("Messages/1.emlx"), file) :
        sender_value \in { None, Some("jane@gmail.com") }, file \in EmlxFiles }
    \cup { Message(Some("newsletter@promo.example.com"), subject_value, content,
                   preview_value, emlx_path, EmlxFile("missing", << >>)) :
             subject_value \in { None, Some("Weekly Digest: Top Stories") },
             content \in { None, Some("") },
             preview_value \in { None, Some(""), Some("Unsubscribe") },
             emlx_path \in { None, Some(""), Some("Messages/2.emlx") } }

\* a or b of two Optional[str]
Or(a, b) == IF Truthy(a) THEN a ELSE b

\* process_emails: preview_text of a message
PreviewText(message, show_preview) ==
    IF Or(message.content, message.preview) # None THEN Or(message.content, message.preview)
    ELSE IF show_preview /\ Truthy(message.emlx_path)
    THEN extract_from_emlx(message.emlx_path, message.file)
    ELSE None

\* msg.get(key, '') or ''
GetOrEmpty(value) == IF Truthy(value) THEN value[1] ELSE ""

\* process_emails: the fields and the preview of the next message
ExtractPreview ==
    /\ pc = "idle"
    /\ ipc \in { "unused", "process_emails" }
    /\ ipc' = "process_emails"
    /\ \E message \in Messages, show_preview \in BOOLEAN :
         /\ msg' = Some([ message |-> message, show_preview |-> show_preview ])
         /\ sender' = GetOrEmpty(message.sender)
         /\ subject' = GetOrEmpty(message.subject)
         /\ preview' = PreviewText(message, show_preview)
    /\ pc' = "extracted"
    /\ UNCHANGED << ACTION_THRESHOLD, scorer, sender_score, subject_score, content_score,
                    total, signals, score, category, memo >>
    /\ UNCHANGED << fs, store, reader, outcome, opened >>

\* process_emails: score, signals = scorer.score_email(sender, subject, preview_text)
ScoreExtracted ==
    /\ pc = "extracted"
    /\ CallScoreEmail({ sender }, { subject }, { preview })
    /\ pc' = "scored"
    /\ UNCHANGED << ACTION_THRESHOLD, scorer, score, category, memo >>
    /\ UNCHANGED ingestVars

\* the lengths of the lines of long bodies
LineLengths == { 1, 149, 150, 299, 300, 301 }

MaxBodyLines == 2

\* lines of a body
BodyLines ==
    { Repeat("a", n) : n \in LineLengths }
    \cup { "", "  padded  ", "-- ", "> quoted", "On Monday, Bob wrote:" }

\* bodies of up to MaxBodyLines lines
RECURSIVE Bodies(_)
Bodies(n) ==
    IF n <= 1 THEN BodyLines
    ELSE Bodies(n - 1) \cup { body \o "\n" \o line : body \in Bodies(n - 1), line \in BodyLines }

\* EmailPreview._clean_body(body), called on its own
CleanBody ==
    /\ pc = "idle"
    /\ ipc = "unused"
    /\ \E body \in Bodies(MaxBodyLines) :
         outcome' = [ body |-> body, preview |-> _clean_body(body) ]
    /\ ipc' = "_clean_body"
    /\ UNCHANGED << fs, store, reader, opened, msg >>
    /\ UNCHANGED scoringVars

\* process_emails: the loop goes on to the next message
NextExtracted ==
    /\ pc = "classified"
    /\ msg # None
    /\ pc' = "idle"
    /\ msg' = None
    /\ sender' = ""
    /\ subject' = ""
    /\ preview' = None
    /\ sender_score' = 0
    /\ subject_score' = 0
    /\ content_score' = 0
    /\ total' = 0
    /\ signals' = EmptySignals
    /\ score' = 0
    /\ category' = "unset"
    /\ UNCHANGED << ACTION_THRESHOLD, scorer, memo >>
    /\ UNCHANGED << fs, store, reader, outcome, ipc, opened >>

NextPreview ==
    \/ NewScorer
    \/ ExtractPreview
    \/ ScoreExtracted
    \/ ClassifyTotal
    \/ NextExtracted
    \/ CleanBody

SpecPreview == Init /\ [][NextPreview]_vars

---------------------------------------------------------------------------
(* The threshold adjustments (recategorization_api.py, analyze_and_update.py) *)

\* the arguments apply_threshold_adjustment is called with
ThresholdArguments == { 19, 20, 21, 55, 90, 91 }

\* json.dumps of the result of apply_threshold_adjustment
Rejected == [ success |-> FALSE, message |-> "Threshold must be between 20 and 90" ]

Accepted(old_threshold, new_action_threshold) ==
    [ success |-> TRUE,
      message |-> "Threshold updated from " \o IntText(old_threshold) \o " to "
                  \o IntText(new_action_threshold) \o " (in-memory only)",
      note |-> "This change is temporary. To make it permanent, edit classifier.py" ]

\* the validation of apply_threshold_adjustment
Valid(new_action_threshold) ==
    ~(new_action_threshold < 20 \/ new_action_threshold > 90)

\* apply_threshold_adjustment(new_action_threshold): self.classifier's
\* ACTION_THRESHOLD is rebound when the argument is accepted
ApplyThresholdAdjustment ==
    /\ pc = "idle"
    /\ \E new_action_threshold \in ThresholdArguments :
         IF Valid(new_action_threshold)
         THEN /\ ACTION_THRESHOLD' = new_action_threshold
              /\ outcome' = Accepted(ACTION_THRESHOLD, new_action_threshold)
         ELSE /\ ACTION_THRESHOLD' = ACTION_THRESHOLD
              /\ outcome' = Rejected
    /\ ipc' = "apply_threshold_adjustment"
    /\ UNCHANGED << scorer, pc, sender, subject, preview, sender_score, subject_score,
                    content_score, total, signals, score, category, memo >>
    /\ UNCHANGED << fs, store, reader, opened, msg >>

NextThresholds ==
    \/ ApplyThresholdAdjustment
    \/ UpdateClassifierPy
    \/ Classify
    \/ NextMessage

SpecThresholds == Init /\ [][NextThresholds]_vars

---------------------------------------------------------------------------
(* Envelope Index shapes for account resolution (mail_index.py get_accounts) *)

\* what the mailbox column of the two message rows holds: rowids of the
\* mailboxes table, paths, nothing usable, or a mix
MailboxValues ==
    { << SqlInt(1), SqlInt(2) >>,
      << SqlText("Exchange/INBOX"), SqlText("/.Trash//iCloud\\Sent") >>,
      << SqlNull, SqlInt(0) >>,
      << SqlText("Exchange/INBOX"), SqlInt(1) >>,
      << SqlText("./"), SqlInt(2) >> }

\* the account column of the message table, when it has one
AccountValues ==
    { None,
      Some(<< SqlText("Work"), SqlText("Work") >>),
      Some(<< SqlNull, SqlText("") >>),
      Some(<< SqlInt(7), SqlText("Home") >>) }

\* the mailbox_path column of the message table, when it has one
MailboxPathValues ==
    { None,
      Some(<< SqlText("iCloud/Sent"), SqlText("Exchange/INBOX") >>),
      Some(<< SqlNull, SqlText(".x") >>) }

\* the mailboxes table: missing, with its url column, or without it
MailboxTables ==
    { << >>,
      [ mailboxes |-> AppleLookups.mailboxes ],
      [ mailboxes |-> Table({ "name" }, << [ name |-> SqlText("INBOX") ],
                                           [ name |-> SqlText("Archive") ] >>) ] }

\* other tables with an account column
OtherTables ==
    { << >>,
      [ accounts |-> Table({ "account" }, << [ account |-> SqlText("Zeta") ],
                                             [ account |-> SqlText("Alpha") ] >>) ],
      [ accounts |-> Table({ "account" }, << [ account |-> SqlText("Zeta") ],
                                             [ account |-> SqlText("Alpha") ] >>),
        profiles |-> Table({ "account", "name" },
                           << [ account |-> SqlText("Alpha"), name |-> SqlText("a") ],
                              [ account |-> SqlNull, name |-> SqlText("b") ],
                              [ account |-> SqlText("Beta"), name |-> SqlText("c") ] >>) ] }

\* a column added to the rows of a table
WithColumn(table, column, values) ==
    IF values = None THEN table
    ELSE [ columns |-> table.columns \cup { column },
           rows |-> [ i \in 1..Len(table.rows) |->
                        [ c \in { column } |-> values[1][i] ] @@ table.rows[i] ] ]

\* the message table with the given mailbox, account and mailbox_path columns
AccountMessages(mailbox, account, mailbox_path) ==
    WithColumn(WithColumn(WithColumn(DropColumns(AppleMessages, { "mailbox" }),
                                     "mailbox", Some(mailbox)),
                          "account", account),
               "mailbox_path", mailbox_path)

\* the Envelope Index shapes get_accounts is run on, one of them without the
\* mailbox column and one without the message table
AccountStores ==
    { [ openable |-> TRUE,
        tables |-> [ messages |-> AccountMessages(mailbox, account, mailbox_path) ]
                   @@ lookup @@ others
                   @@ Restrict(AppleLookups, { "addresses", "subjects" }) ] :
        mailbox \in MailboxValues, account \in AccountValues,
        mailbox_path \in MailboxPathValues, lookup \in MailboxTables, others \in OtherTables }
    \cup { [ openable |-> TRUE,
             tables |-> [ messages |-> DropColumns(AppleMessages, { "mailbox" }) ] @@ others ] :
             others \in OtherTables }
    \cup { [ openable |-> TRUE, tables |-> AppleLookups @@ others ] : others \in OtherTables }

\* one machine, an Envelope Index of every such shape
InitAccounts ==
    /\ ScorerIdle
    /\ fs = DefaultFileSystem
    /\ \E a \in AccountStores : store = Databases(DefaultFileSystem, a, DefaultOutlookStore)
    /\ NoReader

NextAccounts ==
    \/ CreateReader
    \/ Connect
    \/ Close
    \/ GetAccounts

SpecAccounts == InitAccounts /\ [][NextAccounts]_vars

---------------------------------------------------------------------------
(* process_emails as one call on a list of messages (main.py) *)

\* the messages the lists are made of: with and without a body file, a stored
\* preview or content, a sender or a subject
BatchMessages ==
    { Message(Some("jane@gmail.com"), Some("Can you review this by Friday?"), None, None,
              Some("Messages/1.emlx"), file) :
        file \in { EmlxFile("missing", << >>),
                   EmlxFile("ok", << Part("text/plain", TRUE, PreviewParts[1]) >>) } }
    \cup { Message(None, Some("Can you review this by Friday?"), None, None, Some("Messages/1.emlx"),
                   EmlxFile("ok", << Part("text/html", TRUE, "<b>Unsubscribe</b>"),
                                     Part("text/plain", TRUE, PreviewParts[2]) >>)),
           Message(Some("newsletter@promo.example.com"), Some("Weekly Digest: Top Stories"),
                   None, Some("Unsubscribe"), None, EmlxFile("missing", << >>)),
           Message(Some("newsletter@promo.example.com"), None,
                   Some(""), Some(""), None, EmlxFile("missing", << >>)) }

MaxBatch == 2

\* the lists of at most n messages
RECURSIVE MessageLists(_)
MessageLists(n) ==
    IF n = 0 THEN { << >> }
    ELSE MessageLists(n - 1)
         \cup { Append(list, message) : list \in MessageLists(n - 1), message \in BatchMessages }

\* msg['score'] = score; msg['signals'] = signals; msg['category'] = category.value;
\* msg['preview'] = preview_text
Enriched(message, preview_text, r, action_threshold) ==
    [ message EXCEPT !.preview = preview_text ]
    @@ [ score |-> r.total, signals |-> r.signals,
         category |-> classify(r.total, action_threshold) ]

\* the body of the loop, scoring the preview the message came with
Scored_StoredPreview(self, message, preview_text, action_threshold) ==
    Enriched(message, preview_text,
             score_email(self, GetOrEmpty(message.sender), GetOrEmpty(message.subject),
                         message.preview),
             action_threshold)

\* the body of the loop: score, signals = scorer.score_email(sender, subject,
\* preview_text); category = EmailClassifier.classify(score)
Scored(self, message, preview_text, action_threshold) ==
    Enriched(message, preview_text,
             score_email(self, GetOrEmpty(message.sender), GetOrEmpty(message.subject),
                         preview_text),
             action_threshold)

\* process_emails(messages, scorer, show_preview): processed, one dict
\* appended per message
process_emails(messages_arg, self, show_preview, action_threshold) ==
    [ i \in 1..Len(messages_arg) |->
        Scored(self, messages_arg[i], PreviewText(messages_arg[i], show_preview),
               action_threshold) ]

\* processed = process_emails(messages, scorer, show_preview=...), once in a
\* run; the thresholds of the classifier at the time of the call are kept with
\* the arguments
ProcessEmails ==
    /\ pc = "idle"
    /\ ipc # "process_emails returned"
    /\ \E messages_arg \in MessageLists(MaxBatch), show_preview \in BOOLEAN :
         outcome' = [ raised |-> None,
                      value |-> Some(process_emails(messages_arg, scorer, show_preview,
                                                    ACTION_THRESHOLD)),
                      printed |-> << >>,
                      args |-> Some([ messages |-> messages_arg, scorer |-> scorer,
                                      show_preview |-> show_preview,
                                      action_threshold |-> ACTION_THRESHOLD ]) ]
    /\ ipc' = "process_emails returned"
    /\ UNCHANGED << fs, store, reader, opened, msg >>
    /\ UNCHANGED scoringVars

NextProcess ==
    \/ NewScorer
    \/ UpdateClassifierPy
    \/ ProcessEmails

SpecProcess == Init /\ [][NextProcess]_vars

---------------------------------------------------------------------------
(* Properties *)

\* sum(signals.values())
RECURSIVE SumOver(_, _)
SumOver(d, keys) ==
    IF keys = {} THEN 0
    ELSE LET k == CHOOSE x \in keys : TRUE
         IN  d[k] + SumOver(d, keys \ {k})

SignalSum(d) == SumOver(d, DOMAIN d)

\* the sum score_email clamps
RawTotal == sender_score + subject_score + content_score

Rank(c) == CASE c = "IGNORE" -> 0 [] c = "FYI" -> 1 [] c = "ACTION" -> 2

DefaultScorer == EmailScorer(None, None)

\* C1: for every input and scorer configuration the total returned by
\* score_email is an integer in 0..100, also when the sum of the
\* contributions is below 0 or above 100.
C1_TotalInRange == total \in 0..100

C1_RawAboveRange == pc = "scored" /\ RawTotal > 100 /\ total = 100

\* C2: the total returned by score_email is the sum of the values of the
\* returned signals map, clamped to 0..100.
C2_TotalIsClampedSignalSum ==
    pc = "scored" => total = Max(0, Min(100, SignalSum(signals)))

C4_ClassifyBands ==
    pc = "classified" =>
        /\ (category = "ACTION") <=> (score >= ACTION_THRESHOLD)
        /\ (category = "FYI") <=>
               (FYI_THRESHOLD <= score /\ score < ACTION_THRESHOLD)
        /\ (category = "IGNORE") <=> (score < FYI_THRESHOLD)
        /\ (score = FYI_THRESHOLD) => (category = "FYI")
        /\ (score = FYI_THRESHOLD - 1) => (category = "IGNORE")
        /\ (score = ACTION_THRESHOLD) => (category = "ACTION")

C4_AtFyiThreshold ==
    pc = "classified" /\ score = FYI_THRESHOLD /\ category = "FYI"

\* C5: classify is monotonic: a score at least as high never gets a category
\* of lower rank (IGNORE < FYI < ACTION).
C5_ClassifyMonotonic ==
    pc = "classified" =>
        \A s2 \in ScoreDomain :
            (score <= s2) => Rank(category) <= Rank(classify(s2, ACTION_THRESHOLD))

C5_LowerScoreLowerRank ==
    /\ pc = "classified"
    /\ category = "IGNORE"
    /\ \E s2 \in ScoreDomain : score < s2 /\ classify(s2, ACTION_THRESHOLD) = "FYI"
    /\ \E s2 \in ScoreDomain : score < s2 /\ classify(s2, ACTION_THRESHOLD) = "ACTION"

\* C6: the signals map holds exactly one of bulk_sender (-30) and
\* direct_sender (+20): bulk_sender when the lowered sender contains a bulk
\* pattern, direct_sender otherwise.
C6_BulkOrDirect ==
    pc = "scored" =>
        IF AnyPatternIn(BULK_PATTERNS, Lower(sender))
        THEN /\ "bulk_sender" \in DOMAIN signals
             /\ signals["bulk_sender"] = -30
             /\ "direct_sender" \notin DOMAIN signals
        ELSE /\ "direct_sender" \in DOMAIN signals
             /\ signals["direct_sender"] = 20
             /\ "bulk_sender" \notin DOMAIN signals

C6_BulkSenderTrustedDomain ==
    /\ pc = "scored"
    /\ sender = "NoReply@Gmail.com "
    /\ "bulk_sender" \in DOMAIN signals
    /\ "trusted_domain" \in DOMAIN signals
    /\ "direct_sender" \notin DOMAIN signals

\* the subject made of a prefix and the parts numbered by idx
SubjectFrom(pre, idx) == pre \o JoinParts(SubjectParts, idx, 1)

HasActionRequired(text) == AnyPatternIn(action_required_patterns, Lower(text))

HasInformational(text) ==
    \/ AnyPatternIn(INFORMATIONAL_PATTERNS, Lower(text))
    \/ AnyPatternIn(license_expiration_keywords, Lower(text))

\* for a subject, the subjects that are it without one informational or
\* license-expiration part and that hold an action-required phrase alone
ActionAlone ==
    [j \in Subjects |->
        { SubjectFrom(t[1], t[2]) :
            t \in { t \in SubjectPrefixes
                          \X { idx \in SUBSET (1..Len(SubjectParts)) :
                                   Cardinality(idx) < MaxSubjectParts }
                          \X (1..Len(SubjectParts)) :
                      /\ t[3] \notin t[2]
                      /\ SubjectFrom(t[1], t[2] \cup {t[3]}) = j
                      /\ HasInformational(SubjectParts[t[3]])
                      /\ HasActionRequired(SubjectFrom(t[1], t[2]))
                      /\ ~HasInformational(SubjectFrom(t[1], t[2])) } }]

\* score_email's unclamped sum for a call result
RawOf(r) == r.sender_score + r.subject_score + r.content_score

\* C7: with the same sender and preview, a subject with an action-required
\* phrase and an informational or license-expiration phrase has a strictly
\* lower unclamped sum, no higher total and no higher category rank than the
\* subject with the action-required phrase alone.
C7_InformationalLowersActionRequired ==
    pc = "classified" =>
        \A base \in ActionAlone[subject] :
            LET r == score_email(scorer, sender, base, preview)
            IN  /\ RawTotal < RawOf(r)
                /\ total <= r.total
                /\ Rank(category) <= Rank(classify(r.total, ACTION_THRESHOLD))

C7_ActionToFyi ==
    /\ pc = "classified"
    /\ category = "FYI"
    /\ \E base \in ActionAlone[subject] :
           classify(score_email(scorer, sender, base, preview).total,
                    ACTION_THRESHOLD) = "ACTION"

\* C8: a preview with one or more unsubscribe patterns records has_unsubscribe
\* with -40 and lowers the content sum by exactly 40, once, whatever the number
\* of unsubscribe variants and whichever other content signals fire.
C8_UnsubscribeOnce ==
    (pc = "scored" /\ preview # None
       /\ AnyPatternIn(UNSUBSCRIBE_PATTERNS, Lower(preview[1])))
        => /\ "has_unsubscribe" \in DOMAIN signals
           /\ signals["has_unsubscribe"] = -40
           /\ content_score =
                  SumOver(signals, DOMAIN signals
                                     \cap { "jira_automated", "informational_notice",
                                            "action_phrase", "mentions_name" }) - 40

C8_TwoVariantsAndActionPhrase ==
    /\ pc = "scored"
    /\ preview # None
    /\ Cardinality(Matches(UNSUBSCRIBE_PATTERNS, Lower(preview[1]))) >= 2
    /\ "action_phrase" \in DOMAIN signals
    /\ signals["has_unsubscribe"] = -40

\* C9: on a default scorer, sender "newsletter@promo.example.com" with subject
\* "Weekly Digest: Top Stories" and no preview gives exactly the signals
\* bulk_sender -30 and newsletter_subject -20, total 0 and category IGNORE.
C9_NewsletterScenario ==
    (pc = "classified" /\ scorer = DefaultScorer
       /\ sender = "newsletter@promo.example.com"
       /\ subject = "Weekly Digest: Top Stories"
       /\ preview = None)
        => /\ signals = [bulk_sender |-> -30, newsletter_subject |-> -20]
           /\ total = 0
           /\ category = "IGNORE"

C9_NewsletterScored ==
    /\ pc = "classified"
    /\ scorer = DefaultScorer
    /\ sender = "newsletter@promo.example.com"
    /\ subject = "Weekly Digest: Top Stories"
    /\ preview = None
    /\ RawTotal = -50
    /\ category = "IGNORE"

\* C10: on a default scorer, sender "jane@gmail.com" with subject "Can you
\* review this by Friday?" and the proposal preview records positive
\* direct_sender, trusted_domain, contains_question and action_phrase, no
\* negative signal, and under the shipped thresholds the total classifies as
\* ACTION.
C10_ReviewScenario ==
    (pc = "classified" /\ scorer = DefaultScorer
       /\ sender = "jane@gmail.com"
       /\ subject = "Can you review this by Friday?"
       /\ preview = Some(PreviewParts[1]))
        => /\ { "direct_sender", "trusted_domain", "contains_question",
                "action_phrase" } \subseteq DOMAIN signals
           /\ \A k \in DOMAIN signals : signals[k] > 0
           /\ score = total
           /\ (ACTION_THRESHOLD = DEFAULT_ACTION_THRESHOLD) => (category = "ACTION")

C10_ReviewScored ==
    /\ pc = "classified"
    /\ scorer = DefaultScorer
    /\ ACTION_THRESHOLD = DEFAULT_ACTION_THRESHOLD
    /\ sender = "jane@gmail.com"
    /\ subject = "Can you review this by Friday?"
    /\ preview = Some(PreviewParts[1])
    /\ category = "ACTION"

\* the Envelope Index the reader reads
Db == store[reader[1].db_path]

\* the last call was query_messages on a MailIndexReader, and returned or raised
MailQueried ==
    /\ ipc = "query_messages"
    /\ reader[1].kind = "apple-mail"
    /\ CanConnect(reader[1], store)

\* the call had no filters
Unfiltered(args) ==
    args.since_days = None /\ ~args.unread_only /\ args.mailbox = None /\ args.account = None

\* the store has a message table with the columns every query selects and at
\* least one message, and lacks the addresses or the subjects table
LacksLookup(st) ==
    /\ FindTable(st, Candidates, 1) # None
    /\ { "sender", "subject", "date_received", "mailbox", "read" }
         \subseteq st.tables[FindTable(st, Candidates, 1)[1]].columns
    /\ Len(st.tables[FindTable(st, Candidates, 1)[1]].rows) >= 1
    /\ "addresses" \notin DOMAIN st.tables \/ "subjects" \notin DOMAIN st.tables

\* the value a result row has under a key is the message row's own value of a column
Literal(st, row, key, column) ==
    row[key] = st.tables[FindTable(st, Candidates, 1)[1]].rows[row.message_id.int][column]

\* C11: on an Envelope Index that has a message table with at least one message
\* but no addresses and/or no subjects table, query_messages without filters
\* builds its query without a join on the absent table, does not raise, and
\* returns a non-empty list whose rows carry the message row's own sender /
\* subject value in place of the looked-up one.
C11_MissingLookupFallsBackToLiteral ==
    (MailQueried /\ Unfiltered(outcome.args[1]) /\ LacksLookup(Db))
    => /\ outcome.raised = None
       /\ outcome.value[1] # << >>
       /\ \A j \in 1..Len(MailQuery(Db, FindTable(Db, Candidates, 1)[1], outcome.args[1]).joins) :
              MailQuery(Db, FindTable(Db, Candidates, 1)[1], outcome.args[1]).joins[j].table
                  \in DOMAIN Db.tables
       /\ \A n \in 1..Len(outcome.value[1]) :
              /\ "addresses" \notin DOMAIN Db.tables
                   => Literal(Db, outcome.value[1][n], "sender", "sender")
              /\ "subjects" \notin DOMAIN Db.tables
                   => Literal(Db, outcome.value[1][n], "subject", "subject")

\* a query without filters has returned on a store with neither lookup table
C11_Witness ==
    /\ MailQueried /\ Unfiltered(outcome.args[1]) /\ LacksLookup(Db)
    /\ "addresses" \notin DOMAIN Db.tables /\ "subjects" \notin DOMAIN Db.tables
    /\ outcome.raised = None
    /\ Len(outcome.value[1]) > 1


\* C12: the source store is never modified: every connection a reader opens
\* (in connect, query_messages, get_accounts, get_mailboxes, a with block or a
\* probe of create_reader) is opened in read-only mode, and no operation
\* changes the contents of a database file.
C12_StoreNeverModified ==
    [][ /\ \A c \in opened' : c.mode = "ro"
        /\ store' = store ]_vars

\* auto-detection has probed an Outlook database through a connection of its own
C12_Witness ==
    /\ ipc = "create_reader"
    /\ outcome.raised = None
    /\ \E c \in opened : c.kind = "outlook" /\ c.db_path = reader[1].db_path

\* C13: when a query batch of a caller (load_emails of the UI, the with block
\* of main) has ended and the caller goes on with its result, whether messages,
\* an empty list or an exception, the reader's connection is closed.
C13_BatchLeavesConnectionClosed ==
    (ipc \in { "load_emails", "main" } /\ reader # None) => reader[1].connection = None

\* create_reader has returned or raised, called with the given client
Created(client) == ipc = "create_reader" /\ outcome.client = client

\* Variant A, constructed and probed on its own
VariantA == Probed(MailIndexReader(fs, outcome.db_path), store)

\* Variant B, constructed and probed on its own
VariantB == Probed(OutlookIndexReader(fs, outcome.db_path), store)

\* C14: in auto mode create_reader tries Variant A first and returns it when
\* its construction and probe succeed; only when Variant A raised (any error)
\* it tries Variant B and returns it when that succeeds; when both fail it
\* raises one FileNotFoundError with the generic message, never a backend's
\* own error.
C14_AutoTriesAppleThenOutlook ==
    Created(None)
    => /\ VariantA.raised = None
            => /\ outcome.raised = None
               /\ outcome.value = VariantA.value
               /\ outcome.attempts = << "apple-mail" >>
       /\ (VariantA.raised # None /\ VariantB.raised = None)
            => /\ outcome.raised = None
               /\ outcome.value = VariantB.value
               /\ outcome.attempts = << "apple-mail", "outlook" >>
       /\ (VariantA.raised # None /\ VariantB.raised # None)
            => /\ outcome.raised = Some(FileNotFoundError(NoBackendText))
               /\ outcome.attempts = << "apple-mail", "outlook" >>

\* Variant A failed with an error other than FileNotFoundError and Variant B
\* was returned
C14_Witness ==
    /\ Created(None)
    /\ VariantA.raised # None
    /\ VariantA.raised[1].type # "FileNotFoundError"
    /\ outcome.raised = None
    /\ outcome.value[1].kind = "outlook"

\* the mail root exists and is unreadable, and no explicit path was given
UnreadableRoot ==
    /\ ipc = "create_reader"
    /\ fs.mail_dir = "unreadable"
    /\ outcome.db_path = None
    /\ outcome.client \in { None, Some("apple-mail") }

\* C17: when the mail root exists but is unreadable, create_reader, for
\* 'apple-mail' and in auto mode, ends with the PermissionError of
\* _find_envelope_index, its remediation text unchanged, and has attempted no
\* other backend.
C17_PermissionErrorReachesCaller ==
    UnreadableRoot
    => /\ outcome.raised = Some(PermissionError(FullDiskAccessText))
       /\ outcome.attempts = << "apple-mail" >>

\* the digits of a version directory's name
IsDigits(s) == Len(s) > 0 /\ \A i \in 1..Len(s) : StrContains("0123456789", SubSeq(s, i, i))

\* int(s) for a string of digits
RECURSIVE Number(_)
Number(s) ==
    IF Len(s) = 0 THEN 0
    ELSE 10 * Number(SubSeq(s, 1, Len(s) - 1))
         + (CHOOSE k \in 0..9 : SubSeq("0123456789", k + 1, k + 1) = SubSeq(s, Len(s), Len(s)))

\* the version directories V<n> that contain MailData/Envelope Index
Versions == { v \in fs.with_index : IsDigits(SubSeq(v, 2, Len(v))) }

\* the one of them with the highest version number n
HighestVersion ==
    CHOOSE v \in Versions :
        \A w \in Versions : Number(SubSeq(w, 2, Len(w))) <= Number(SubSeq(v, 2, Len(v)))

\* C20: without an explicit path, Variant A uses the Envelope Index of the
\* version directory V<n> with the numerically highest n among those that
\* contain one; with an explicit path that exists it uses that path, whatever
\* the mail root holds (no discovery).
C20_HighestVersionOrExplicitPath ==
    /\ (Created(Some("apple-mail")) /\ outcome.db_path = None
          /\ fs.mail_dir = "ok" /\ Versions # {})
         => /\ outcome.raised = None
            /\ outcome.value[1].db_path = EnvelopePath(HighestVersion)
    /\ (Created(Some("apple-mail")) /\ outcome.db_path # None
          /\ Exists(fs, outcome.db_path[1]))
         => /\ outcome.raised = None
            /\ outcome.value[1].db_path = outcome.db_path[1]

\* the final statement of the query_messages call that has just ended
FinalStatement ==
    IF reader[1].kind = "apple-mail"
    THEN MailQuery(Db, FindTable(Db, Candidates, 1)[1], outcome.args[1])
    ELSE OutlookQuery(outcome.args[1])

\* query_messages has ended and the final statement it built names a table or
\* column the database does not have
StatementFailed ==
    /\ ipc = "query_messages"
    /\ CanConnect(reader[1], store)
    /\ reader[1].kind = "apple-mail" => FindTable(Db, Candidates, 1) # None
    /\ ~QueryValid(Db, FinalStatement)

\* C15: when the final statement query_messages built fails to execute, in
\* either reader, the call does not raise, prints one warning and returns an
\* empty list, and the reader can be used again: no further query_messages or
\* get_accounts call on it raises.
C15_FailedStatementWarnsAndReturnsEmpty ==
    StatementFailed
    => /\ outcome.raised = None
       /\ outcome.value[1] = << >>
       /\ Len(outcome.printed) = 1
       /\ StartsWith(outcome.printed[1], "Warning: Query failed")
       /\ \A args \in FilterSets : query_messages(reader[1], store, args).raised = None
       /\ get_accounts(reader[1], store).raised = None

\* a MailIndexReader query on a message table without the read column has
\* ended, and the same reader would return its messages if asked without filters
C15_Witness ==
    /\ StatementFailed
    /\ reader[1].kind = "apple-mail"
    /\ outcome.printed # << >>
    /\ query_messages(reader[1], store, NoFilters).value = outcome.value

\* C16: whatever tables and columns the Envelope Index lacks, including all of
\* the candidate message tables, MailIndexReader.query_messages raises nothing
\* and returns a list.
C16_MissingSchemaNeverRaises ==
    MailQueried => outcome.raised = None

\* C18: for every body text the preview _clean_body returns, and so the one
\* extract_from_emlx returns, is at most 300 characters long, the ellipsis of
\* a truncated preview included.
C18_PreviewAtMost300 ==
    /\ ipc = "_clean_body" => Len(outcome.preview) <= 300
    /\ (pc = "extracted" /\ preview # None) => Len(preview[1]) <= 300

\* the content signals of score_email
ContentSignalNames ==
    { "jira_automated", "informational_notice", "action_phrase", "mentions_name",
      "has_unsubscribe" }

\* the body file is missing, unreadable, or none of its parts is a text part
\* that can be decoded
NoPreviewFile(file) ==
    \/ file.state \in { "missing", "unreadable" }
    \/ \A k \in 1..Len(file.parts) :
           \/ file.parts[k].content_type \notin { "text/plain", "text/html" }
           \/ ~file.parts[k].decodable

\* process_emails has asked extract_from_emlx for the preview of the message
\* it is working on, and the preview cannot be extracted
ExtractionFailed ==
    /\ msg # None
    /\ pc \in { "extracted", "scored", "classified" }
    /\ msg[1].show_preview
    /\ Or(msg[1].message.content, msg[1].message.preview) = None
    /\ Truthy(msg[1].message.emlx_path)
    /\ NoPreviewFile(msg[1].message.file)

\* C19: for a message whose preview cannot be extracted (body file missing,
\* unreadable, undecodable or without a text part) extract_from_emlx returns
\* None, and process_emails scores and classifies the message from sender and
\* subject alone: no content signal is in its signals.
C19_FailedExtractionScoresWithoutContent ==
    ExtractionFailed
    => /\ preview = None
       /\ sender = GetOrEmpty(msg[1].message.sender)
       /\ subject = GetOrEmpty(msg[1].message.subject)
       /\ pc \in { "scored", "classified" }
            => /\ DOMAIN signals \cap ContentSignalNames = {}
               /\ content_score = 0
               /\ total = score_email(scorer, sender, subject, None).total
       /\ pc = "classified"
            => /\ score = total
               /\ category = classify(total, ACTION_THRESHOLD)

\* a message whose only text part cannot be decoded has been scored on its
\* sender and classified
C19_Witness ==
    /\ ExtractionFailed
    /\ pc = "classified"
    /\ msg[1].message.file = EmlxFile("ok", << Part("text/plain", FALSE, "Unsubscribe") >>)
    /\ DOMAIN signals # {}
    /\ category # "unset"

\* C21: the two thresholds always satisfy ACTION_THRESHOLD > FYI_THRESHOLD,
\* initially and after every sequence of apply_threshold_adjustment and
\* update_classifier_py calls.
C21_ActionAboveFyi == ACTION_THRESHOLD > FYI_THRESHOLD

\* the store has a message table with the columns every query names, and a
\* mailboxes table
HasMailboxTable(st) ==
    /\ FindTable(st, Candidates, 1) # None
    /\ { "sender", "subject", "date_received", "mailbox", "read" }
         \subseteq st.tables[FindTable(st, Candidates, 1)[1]].columns
    /\ "mailboxes" \in DOMAIN st.tables

\* the rows of the message table of a store
MessageRows(st) == st.tables[FindTable(st, Candidates, 1)[1]].rows

\* the resolved mailbox path of message row i: the url of the mailboxes row its
\* mailbox column points to
ResolvedPath(st, i) == st.tables["mailboxes"].rows[MessageRows(st)[i].mailbox.int].url.text

\* message row i satisfies the time and unread filters of the call
PassesOtherFilters(st, args, i) ==
    /\ args.since_days # None
         => MessageRows(st)[i].date_received.int >= Now - args.since_days[1] * SecondsPerDay
    /\ args.unread_only => MessageRows(st)[i].read.int = 0

\* the resolved path of message row i contains each supplied value
PathContainsSupplied(st, args, i) ==
    /\ Truthy(args.mailbox) => StrContains(ResolvedPath(st, i), args.mailbox[1])
    /\ Truthy(args.account) => StrContains(ResolvedPath(st, i), args.account[1])

\* C22: with a mailboxes table present, a message that satisfies the other
\* filters is returned by query_messages if and only if its resolved mailbox
\* path contains each supplied mailbox / account value; nothing else is asked
\* of it, and no supplied filter is dropped.
C22_MailboxAccountMatchResolvedPath ==
    (MailQueried /\ HasMailboxTable(Db) /\ outcome.args[1].limit >= Len(MessageRows(Db)))
    => /\ outcome.raised = None
       /\ { outcome.value[1][n].message_id.int : n \in 1..Len(outcome.value[1]) }
            = { i \in 1..Len(MessageRows(Db)) :
                  /\ PassesOtherFilters(Db, outcome.args[1], i)
                  /\ PathContainsSupplied(Db, outcome.args[1], i) }

\* the last call was query_messages, on either reader, and it returned
Queried ==
    /\ ipc = "query_messages"
    /\ CanConnect(reader[1], store)
    /\ outcome.raised = None

\* the message table the reader reads, and the column with the received time
SourceTable ==
    IF reader[1].kind = "apple-mail" THEN Db.tables[FindTable(Db, Candidates, 1)[1]]
    ELSE Db.tables["Mail"]

ReceivedColumn ==
    IF reader[1].kind = "apple-mail" THEN "date_received" ELSE "Message_TimeReceived"

\* every column the query of the reader names is in its message table
FullSchema ==
    IF reader[1].kind = "apple-mail"
    THEN { "sender", "subject", "date_received", "mailbox", "read" } \subseteq SourceTable.columns
    ELSE OutlookMail.columns \subseteq SourceTable.columns

\* the call had no filter other than since_days, and a limit no row exceeds
OnlySinceDays(args) ==
    /\ ~args.unread_only /\ args.mailbox = None /\ args.account = None
    /\ args.limit >= Len(SourceTable.rows)

\* C23: with since_days = d, query_messages of either reader returns only
\* messages received at or after now - d * 86400, and returns the message
\* received exactly then; with since_days None it applies no time condition.
C23_SinceDaysInclusive ==
    (Queried /\ FullSchema)
    => /\ outcome.args[1].since_days # None
            => \A n \in 1..Len(outcome.value[1]) :
                   outcome.value[1][n].date_received.int
                       >= Now - outcome.args[1].since_days[1] * SecondsPerDay
       /\ OnlySinceDays(outcome.args[1])
            => { outcome.value[1][n].message_id.int : n \in 1..Len(outcome.value[1]) }
                 = { i \in 1..Len(SourceTable.rows) :
                       \/ outcome.args[1].since_days = None
                       \/ SourceTable.rows[i][ReceivedColumn].int
                            >= Now - outcome.args[1].since_days[1] * SecondsPerDay }

\* a message received exactly at the cutoff has been returned
C23_Witness ==
    /\ Queried
    /\ FullSchema
    /\ outcome.args[1].since_days # None
    /\ \E n \in 1..Len(outcome.value[1]) :
           outcome.value[1][n].date_received.int
               = Now - outcome.args[1].since_days[1] * SecondsPerDay

\* the last call was get_accounts on a MailIndexReader
MailAccountsCalled ==
    /\ ipc = "get_accounts"
    /\ reader # None
    /\ reader[1].kind = "apple-mail"
    /\ CanConnect(reader[1], store)

\* the positions of the path separators of a path, and both of its ends
Separators(path) ==
    { 0, Len(path) + 1 } \cup { i \in 1..Len(path) : SubSeq(path, i, i) \in { "/", "\\" } }

\* the starts of the segments that are not empty and do not start with a dot
SegmentStarts(path) ==
    { i + 1 : i \in { s \in Separators(path) :
                        /\ s + 1 <= Len(path)
                        /\ s + 1 \notin Separators(path)
                        /\ SubSeq(path, s + 1, s + 1) # "." } }

\* the first such segment
FirstSegment(path) ==
    SubSeq(path, Least(SegmentStarts(path)),
           Least({ s \in Separators(path) : s > Least(SegmentStarts(path)) }) - 1)

\* the accounts the claim derives from a set of stored paths
SegmentAccounts(paths) ==
    { FirstSegment(p.text) : p \in { v \in paths : IsText(v) /\ SegmentStarts(v.text) # {} } }

\* the mailbox paths the message rows resolve to through the mailboxes table
ResolvedPaths(st) ==
    IF "mailboxes" \in DOMAIN st.tables /\ "url" \in st.tables["mailboxes"].columns
    THEN { st.tables["mailboxes"].rows[m.int].url :
             m \in { v \in ColumnValues(st.tables["messages"], "mailbox") :
                       IsInt(v) /\ v.int \in 1..Len(st.tables["mailboxes"].rows) } }
    ELSE {}

\* what each strategy yields, in the order of the strategies
Strategies(st) ==
    << SegmentAccounts(ColumnValues(st.tables["messages"], "mailbox")),
       FromAccountColumn(st.tables["messages"]),
       IF "mailbox_path" \in st.tables["messages"].columns
       THEN SegmentAccounts(ColumnValues(st.tables["messages"], "mailbox_path")) ELSE {},
       SegmentAccounts(ResolvedPaths(st)),
       FromOtherTables(st) >>

\* the strategies that yield an account
Yielding(st) == { k \in 1..5 : Strategies(st)[k] # {} }

\* the first statement of get_accounts fails
AccountsUnreadable(st) ==
    "messages" \notin DOMAIN st.tables \/ "mailbox" \notin st.tables["messages"].columns

\* C24: get_accounts of MailIndexReader returns, without raising, a strictly
\* increasing list; it is empty when a database error occurs or no strategy
\* yields an account, and otherwise holds exactly the accounts of the first
\* strategy, in the fixed order, that yields any, an account of a mailbox path
\* being its first non-empty segment without a leading dot.
C24_FirstYieldingStrategySorted ==
    MailAccountsCalled
    => /\ outcome.raised = None
       /\ \A n \in 1..(Len(outcome.value[1]) - 1) :
              StrLess(outcome.value[1][n], outcome.value[1][n + 1])
       /\ { outcome.value[1][n] : n \in 1..Len(outcome.value[1]) }
            = IF AccountsUnreadable(Db) \/ Yielding(Db) = {} THEN {}
              ELSE Strategies(Db)[Least(Yielding(Db))]

\* a later strategy was used because the earlier ones yielded nothing, while
\* a still later one would have yielded other accounts, and the path skipped
\* an empty or dotted segment
C24_Witness ==
    /\ MailAccountsCalled
    /\ ~AccountsUnreadable(Db)
    /\ Yielding(Db) # {}
    /\ Least(Yielding(Db)) = 3
    /\ 5 \in Yielding(Db)
    /\ Len(outcome.value[1]) = 2

\* the last call was query_messages on an OutlookIndexReader, and it returned
OutlookQueried == Queried /\ reader[1].kind = "outlook"

\* the stored sender of the n-th returned record, None (NULL) as ''
RawSender(n) ==
    TextOrEmpty(Db.tables["Mail"].rows[outcome.value[1][n].message_id.int].Message_SenderAddressList)

\* the bracketed parts <x> of a raw sender, x not empty: where the "<" and
\* the ">" are
Bracketed(raw) ==
    { p \in (1..Len(raw)) \X (1..Len(raw)) :
        /\ SubSeq(raw, p[1], p[1]) = "<"
        /\ SubSeq(raw, p[2], p[2]) = ">"
        /\ p[2] > p[1] + 1
        /\ \A k \in (p[1] + 1)..(p[2] - 1) : SubSeq(raw, k, k) # ">" }

\* x of the first bracketed part, the raw sender when it has none
FirstBracketed(raw) ==
    IF Bracketed(raw) = {} THEN raw
    ELSE SubSeq(raw, Least({ p[1] : p \in Bracketed(raw) }) + 1,
                Least({ p[2] : p \in Bracketed(raw) }) - 1)

\* C25 as stated: the sender of every record OutlookIndexReader returns is the
\* first bracketed part of the stored sender, or the stored sender exactly when
\* it has none, '' for NULL, and normalizing it again changes nothing.
C25_SenderBracketedOrVerbatim ==
    OutlookQueried
    => \A n \in 1..Len(outcome.value[1]) :
           /\ outcome.value[1][n].sender = SqlText(FirstBracketed(RawSender(n)))
           /\ FirstBracketed(outcome.value[1][n].sender.text) = outcome.value[1][n].sender.text

\* C25 amended: the sender of every record is the first bracketed part of the
\* stored sender, or the stored sender when it has none, in both cases without
\* leading and trailing whitespace; '' for NULL; normalizing it again changes
\* nothing.
C25_SenderBracketedOrStored_Stripped ==
    OutlookQueried
    => \A n \in 1..Len(outcome.value[1]) :
           /\ outcome.value[1][n].sender = SqlText(Strip(FirstBracketed(RawSender(n))))
           /\ Strip(FirstBracketed(outcome.value[1][n].sender.text)) = outcome.value[1][n].sender.text

\* a returned record whose stored sender has a bracketed part, but not at its
\* first "<"
C25_Witness ==
    /\ OutlookQueried
    /\ \E n \in 1..Len(outcome.value[1]) :
           /\ Bracketed(RawSender(n)) # {}
           /\ AngleAddress_AtFirst(RawSender(n)) = RawSender(n)

\* the Outlook database has the tables the account filter joins
HasAccountTables(st) == { "Folders", "AccountsMail" } \subseteq DOMAIN st.tables

\* the registered address of the account linked to message row i through its
\* folder, '' when the row has no folder, the folder no account
LinkedAddress(st, i) ==
    IF Joined(st.tables["Folders"], "Record_RecordID", st.tables["Mail"].rows[i].Record_FolderID) = None
    THEN ""
    ELSE IF Joined(st.tables["AccountsMail"], "Record_RecordID",
                   st.tables["Folders"].rows[
                       Joined(st.tables["Folders"], "Record_RecordID",
                              st.tables["Mail"].rows[i].Record_FolderID)[1]].Record_AccountUID) = None
    THEN ""
    ELSE TextOrEmpty(st.tables["AccountsMail"].rows[
             Joined(st.tables["AccountsMail"], "Record_RecordID",
                    st.tables["Folders"].rows[
                        Joined(st.tables["Folders"], "Record_RecordID",
                               st.tables["Mail"].rows[i].Record_FolderID)[1]].Record_AccountUID)[1]
         ].Account_EmailAddress)

\* text contains value, letters compared without case as LIKE does
ContainsLike(text, value) == StrContains(StrLower(text), StrLower(value))

\* the registered address of the linked account contains the value
RegisteredMatch(st, i, value) == ContainsLike(LinkedAddress(st, i), value)

\* the stored sender contains '@' followed by the domain of the value
SenderDomainMatch(st, i, value) ==
    ContainsLike(TextOrEmpty(st.tables["Mail"].rows[i].Message_SenderAddressList),
                 SubSeq(value, Find(value, "@", 1), Len(value)))

\* message row i passes the account filter as the claim states it
PassesAccount(st, i, value) ==
    \/ RegisteredMatch(st, i, value)
    \/ StrContains(value, "@") /\ SenderDomainMatch(st, i, value)

\* the ids of the returned records
ReturnedIds == { outcome.value[1][n].message_id.int : n \in 1..Len(outcome.value[1]) }

\* C26: with an account value, OutlookIndexReader.query_messages returns only
\* messages whose linked account's registered address contains the value or,
\* when the value contains '@', whose sender contains '@' and the value's
\* domain; with no other filter it returns every such message, and with a
\* value without '@' only the registered address counts.
C26_AccountOrSenderDomain ==
    (OutlookQueried /\ FullSchema /\ HasAccountTables(Db) /\ Truthy(outcome.args[1].account))
    => /\ \A i \in ReturnedIds : PassesAccount(Db, i, outcome.args[1].account[1])
       /\ (outcome.args[1].since_days = None /\ ~outcome.args[1].unread_only
             /\ ~Truthy(outcome.args[1].mailbox)
             /\ outcome.args[1].limit >= Len(Db.tables["Mail"].rows))
            => \A i \in 1..Len(Db.tables["Mail"].rows) :
                   PassesAccount(Db, i, outcome.args[1].account[1]) => i \in ReturnedIds

\* a message is returned on its sender's domain alone, its account not linked
C26_Witness ==
    /\ OutlookQueried /\ FullSchema /\ HasAccountTables(Db)
    /\ Truthy(outcome.args[1].account)
    /\ \E i \in ReturnedIds :
           /\ ~RegisteredMatch(Db, i, outcome.args[1].account[1])
           /\ SenderDomainMatch(Db, i, outcome.args[1].account[1])

\* C27: in the signals of every scoring call, 'meeting_mention' is +15 and is
\* recorded only for a subject that contains 'meeting' or 'call', and never
\* together with 'action_required' or 'meeting_request'.
C27_MeetingMentionOnlyAlone ==
    "meeting_mention" \in DOMAIN signals
    => /\ signals["meeting_mention"] = 15
       /\ Contains(Lower(subject), "meeting") \/ Contains(Lower(subject), "call")
       /\ "action_required" \notin DOMAIN signals
       /\ "meeting_request" \notin DOMAIN signals

\* a call has recorded 'meeting_mention'
C27_Witness ==
    /\ pc = "scored"
    /\ "meeting_mention" \in DOMAIN signals

\* C28: in every scoring call the informational / expiring-license correction
\* takes 15 off the subject score at most once, however many phrases the
\* subject matches, and only when 'action_required' was recorded.
C28_CorrectionOnceOnly ==
    pc = "scored"
    => /\ _score_subject(subject, EmptySignals).score - subject_score \in { 0, 15 }
       /\ (_score_subject(subject, EmptySignals).score # subject_score)
            => "action_required" \in DOMAIN signals

\* process_emails has returned
Processed == ipc = "process_emails returned"

\* C29: process_emails returns one record per input message, in the input
\* order, and the category of every record is classify(score) under the
\* thresholds in force, score and signals being what score_email returns for
\* the sender, subject and preview of that record.
C29_OneRecordPerMessageScoredAndClassified ==
    Processed
    => /\ Len(outcome.value[1]) = Len(outcome.args[1].messages)
       /\ \A i \in 1..Len(outcome.value[1]) :
            /\ \A key \in { "sender", "subject", "content", "emlx_path", "file" } :
                   outcome.value[1][i][key] = outcome.args[1].messages[i][key]
            /\ outcome.value[1][i].score
                 = score_email(outcome.args[1].scorer, GetOrEmpty(outcome.value[1][i].sender),
                               GetOrEmpty(outcome.value[1][i].subject),
                               outcome.value[1][i].preview).total
            /\ outcome.value[1][i].signals
                 = score_email(outcome.args[1].scorer, GetOrEmpty(outcome.value[1][i].sender),
                               GetOrEmpty(outcome.value[1][i].subject),
                               outcome.value[1][i].preview).signals
            /\ outcome.value[1][i].category
                 = (IF outcome.value[1][i].score >= outcome.args[1].action_threshold THEN "ACTION"
                    ELSE IF outcome.value[1][i].score >= FYI_THRESHOLD THEN "FYI"
                    ELSE "IGNORE")

\* two different messages were processed under a changed threshold, the
\* preview of one of them taken from its body file
C29_Witness ==
    /\ Processed
    /\ Len(outcome.value[1]) = 2
    /\ outcome.args[1].messages[1] # outcome.args[1].messages[2]
    /\ outcome.args[1].action_threshold # DEFAULT_ACTION_THRESHOLD
    /\ \E i \in 1..2 : outcome.value[1][i].preview # outcome.args[1].messages[i].preview

\* C30: a reader holds at most one connection: connect() on a reader that has
\* one opens nothing and leaves the reader as it is; connect() on an openable
\* database, after any calls before it, leaves the reader with a connection,
\* opening at most one; after close() the reader has none, and close() on a
\* reader without a connection changes nothing.
C30_AtMostOneConnection ==
    [][ (reader # None /\ reader' # None)
        => /\ (ipc' = "connect" /\ reader[1].connection # None)
                => (opened' = {} /\ reader'[1] = reader[1])
           /\ (ipc' = "connect" /\ store[reader[1].db_path].openable)
                => /\ outcome'.raised = None
                   /\ reader'[1].connection # None
                   /\ opened' \subseteq { reader'[1].connection[1] }
           /\ (ipc' = "close")
                => (reader'[1].connection = None /\ opened' = {})
           /\ (ipc' = "close" /\ reader[1].connection = None)
                => reader'[1] = reader[1] ]_vars

\* connect() was called on a reader that had a connection, and opened nothing
C30_Witness ==
    /\ ipc = "connect"
    /\ reader[1].connection # None
    /\ opened = {}

====
